---- MODULE Spec2Model ----
(***************************************************************************)
(* PyPomes-JWT: the account registry, the token issuer and the token       *)
(* store's eviction policy.                                                *)
(*                                                                         *)
(* The package holds two revisions of the account-keyed, database-backed   *)
(* scheme: JwtRegistry (jwt_registry.py) and JwtData (jwt_data.py).  The   *)
(* variable rev fixes, for a whole behaviour, which of the two is running. *)
(*                                                                         *)
(* Modelling conventions                                                   *)
(*  - a Python dict is a function whose domain is its set of keys;         *)
(*  - a Python str that the code inspects character by character (the      *)
(*    nature, the header's kid) is a sequence of code points;              *)
(*  - None where a dict is expected is the empty dict, and None where a    *)
(*    number of seconds is expected is 0: the code only ever tests these   *)
(*    for truthiness ("claims or {}", "if claims:", "if grace_interval:"); *)
(*  - a signed token is the pair of its header and its payload: jwt.encode *)
(*    builds it and the non-validating decode reads it back;               *)
(*  - time is an integer clock (now), advanced by Tick.                    *)
(***************************************************************************)
EXTENDS Integers, Sequences, FiniteSets, TLC

\* ------------------------------------------------------------------ bounds

\* the clock stops at MaxTime
MaxTime == 2
\* the random generator is drawn at most MaxDraws times (one draw per issuance)
MaxDraws == 3

\* ------------------------------------------------------- program constants

\* sys.maxsize, the default of a missing exp or iat claim (scaled to TLC's integers)
MaxSize == 2147483647
\* the lower bound of a standalone token's duration
MinDuration == 60

\* ------------------------------------------------------------------ inputs

Accounts == {"u1", "u2"}
\* the values JWT_ACCOUNT_LIMIT is configured with (0: the cap is disabled)
Limits == {1, 2}
Revisions == {"registry", "data"}

\* ------------------------------------------------------------------- dicts

EmptyDict == [k \in {} |-> 0]
\* d.update(e)
Update(d, e) == [k \in (DOMAIN d) \cup (DOMAIN e) |-> IF k \in DOMAIN e THEN e[k] ELSE d[k]]
\* d[k] = v
Put(d, k, v) == Update(d, k :> v)
\* the truthiness of a dict
Truthy(d) == DOMAIN d # {}

\* ------------------------------------------------------------------ strings

\* code points
ChrA == 65
ChrR == 82
ChrZ == 90
Chr0 == 48

RECURSIVE IntStr(_)
\* str(n) of a natural number: its decimal digits
IntStr(n) == IF n < 10 THEN <<Chr0 + n>> ELSE IntStr(n \div 10) \o <<Chr0 + (n % 10)>>

\* f"R{token_id}" and f"A{token_id}"
KidOf(letter, token_id) == <<letter>> \o IntStr(token_id)

\* datetime.fromtimestamp(ts, tz=utc).isoformat()
isoformat(ts) == <<"iso", ts>>

\* ------------------------------------------------------------------- state

VARIABLES
    rev,              \* the revision running: "registry" or "data"
    env,              \* the environment variables the modules read when they are loaded
    kept,             \* the tokens a client has kept from the pairs it was issued
    threads,          \* the threads that call the registry: who holds access_lock, where
                      \* each thread is in its call, and its local variables
    ACCOUNT_LIMIT,    \* JwtConfig.ACCOUNT_LIMIT / JWT_ACCOUNT_LIMIT
    access_registry,  \* account id -> <<>> (absent) or <<entry>>
    store,            \* the token table's committed rows
    db_conn,          \* the db_conn a caller of issue_tokens passes: <<>> (None), or
                      \* <<rows>>, the table as its open transaction sees it
    draws,            \* how many issuances have left a token or a row: each of them
                      \* drew one random value and was given one storage id, both
                      \* numbered by this counter (what a call that leaves neither
                      \* has drawn is never seen again)
    now,              \* the clock, in seconds
    result            \* the last call: what was called and what it returned or raised

vars == <<rev, env, kept, threads, ACCOUNT_LIMIT, access_registry, store, db_conn, draws, now, result>>

\* -------------------------------------------------------------- the deployment

\* a key: the bytes of a secret, or one half of an RSA pair (id tells the pairs and the
\* secrets apart); NoKey is a key the environment does not set
Bytes(id) == [kind |-> "bytes", id |-> id]
PrivateKey(id) == [kind |-> "private", id |-> id]
PublicKey(id) == [kind |-> "public", id |-> id]
NoKey == [kind |-> "", id |-> ""]

\* jwt_config.py 17-18: the algorithm the issuer signs with
JwtConfig_DEFAULT_ALGORITHM ==
    IF env.DEFAULT_ALGORITHM # "" THEN env.DEFAULT_ALGORITHM ELSE "RS256"

\* jwt_config.py 13-33: the key the issuer signs with
JwtConfig_ENCODING_KEY ==
    IF JwtConfig_DEFAULT_ALGORITHM \in {"HS256", "HS512"}
    THEN IF env.ENCODING_KEY = NoKey THEN Bytes("jwt_config.token_bytes") ELSE env.ENCODING_KEY
    ELSE IF env.ENCODING_KEY = NoKey \/ env.DECODING_KEY = NoKey
         THEN PrivateKey("jwt_config.generate_private_key")
         ELSE env.ENCODING_KEY

\* jwt_pomes.py 14-15: the algorithm the request verifier checks with
JWT_DEFAULT_ALGORITHM ==
    IF env.DEFAULT_ALGORITHM # "" THEN env.DEFAULT_ALGORITHM ELSE "HS256"

\* jwt_pomes.py 20-21
JWT_HS_SECRET_KEY ==
    IF env.HS_SECRET_KEY = NoKey THEN Bytes("jwt_pomes.token_bytes") ELSE env.HS_SECRET_KEY

\* jwt_pomes.py 26-39
JWT_RSA_PUBLIC_KEY ==
    IF env.RSA_PRIVATE_KEY = NoKey \/ env.RSA_PUBLIC_KEY = NoKey
    THEN PublicKey("jwt_pomes.generate_private_key")
    ELSE env.RSA_PUBLIC_KEY

\* jwt_pomes.py 23: None ("" here) when the environment does not set it
JWT_ENDPOINT_URL == env.ENDPOINT_URL

\* ------------------------------------------------------------------ tokens

\* jwt.encode(payload=..., key=..., algorithm=..., headers={"kid": kid}); sig is the
\* signature: what was signed with, and how
jwt_encode(payload, kid) ==
    [header |-> [alg |-> JwtConfig_DEFAULT_ALGORITHM, typ |-> "JWT", kid |-> kid],
     payload |-> payload,
     sig |-> [algorithm |-> JwtConfig_DEFAULT_ALGORITHM, key |-> JwtConfig_ENCODING_KEY]]
\* jwt_get_claims(token): the token's header and payload, not validated. The decoder it
\* delegates to (JwtData.get_token_claims) is in neither revision: this is what the
\* specification says of it. Its failures are the failure point "decode".
jwt_get_claims(token) == [header |-> token.header, payload |-> token.payload]

Registered(a) == access_registry[a] # <<>>
Entry(a) == access_registry[a][1]

\* the result of a call: ret is <<>> (None or nothing returned) or <<value>>, args the
\* call's other arguments, where a property of the result is stated in their terms, and
\* tx what the call did with a database connection of its own: "connect" when
\* db_connect gave it one, then "rollback" or "commit" when it called db_rollback or
\* db_commit on it
Returned(op, account_id, value) ==
    [op |-> op, account_id |-> account_id, args |-> <<>>, raised |-> "", msg |-> "",
     ret |-> <<value>>, tx |-> <<>>]
\* exc is the exception's type and msg what its message says
Raised(op, account_id, exc, msg) ==
    [op |-> op, account_id |-> account_id, args |-> <<>>, raised |-> exc, msg |-> msg,
     ret |-> <<>>, tx |-> <<>>]
\* the call returned None
ReturnedNone(op, account_id) ==
    [op |-> op, account_id |-> account_id, args |-> <<>>, raised |-> "", msg |-> "",
     ret |-> <<>>, tx |-> <<>>]
\* the same result, of a call that did tx with its connection
WithTx(r, tx) == [r EXCEPT !.tx = tx]

\* what the messages of the RuntimeErrors say
NoAccessData == "No JWT access data found"
InvalidNature == "Invalid nature"
InvalidDuration == "Invalid duration"
DatabaseError == "database error"
RequestFailed == "POST request failed"

\* what the environment sets: "" and NoKey for a variable it does not set
Environment(alg, enc, dec, hs, priv, pub, url) ==
    [DEFAULT_ALGORITHM |-> alg, ENCODING_KEY |-> enc, DECODING_KEY |-> dec,
     HS_SECRET_KEY |-> hs, RSA_PRIVATE_KEY |-> priv, RSA_PUBLIC_KEY |-> pub,
     ENDPOINT_URL |-> url]

\* the deployments: one that sets nothing, one that sets HS256 and gives the issuer and
\* the verifier the same secret, and one that sets RS256 and gives both the same pair
UnsetEnv == Environment("", NoKey, NoKey, NoKey, NoKey, NoKey, "")
HsEnv == Environment("HS256", Bytes("k"), NoKey, Bytes("k"), NoKey, NoKey, "url")
RsEnv ==
    Environment("RS256", PrivateKey("p"), PublicKey("p"), NoKey, PrivateKey("p"),
                PublicKey("p"), "url")
Deployments == {UnsetEnv, HsEnv, RsEnv}

\* the threads of the process
Threads == {"t1", "t2"}

\* the frame of a thread that is in no call: the call's name and account, and the
\* local variables of issue_tokens, _jwt_persist_token and remove_account
\* (popped_at: the last storage id given when remove_account popped the entry)
NoFrame ==
    [op |-> "", account_id |-> "", account_data |-> <<>>, claims |-> <<>>, just_now |-> 0,
     recs |-> <<>>, deleted |-> {}, inserted |-> <<>>, token_id |-> 0,
     refresh_token |-> <<>>, existed |-> FALSE, oldest |-> <<>>, popped_at |-> 0]

\* no thread has touched the registry's dict
NoAccess == [thread |-> "", op |-> "", kind |-> "", held |-> TRUE]

\* access_lock is free (lock is <<>>, or <<t>> when the thread t holds it), every thread
\* is idle; access is the last read or write of the registry's dict, and evicted the
\* ids the issuances that have committed had picked as their oldest token
NoThreads ==
    [lock |-> <<>>, pc |-> [t \in Threads |-> "idle"], frame |-> [t \in Threads |-> NoFrame],
     access |-> NoAccess, evicted |-> <<>>]

Init ==
    /\ rev \in Revisions
    /\ env \in Deployments
    /\ kept = {}
    /\ threads = NoThreads
    /\ ACCOUNT_LIMIT \in Limits
    /\ access_registry = [a \in Accounts |-> <<>>]
    /\ store = {}
    /\ db_conn = <<>>
    /\ draws = 0
    /\ now = 0
    /\ result = ReturnedNone("init", "")

\* ------------------------------------------------------------ the registry

\* the claims an account is registered with
BaseClaims == {"iss" :> "svc"}
AccessAges == {1}
RefreshAges == {1, 2}
\* the refresh age of the accounts of the two-account specification
LongRefreshAges == {2}
GraceIntervals == {0, 1}
ReferenceUrls == {"url"}
RemoteFlags == {FALSE, TRUE}

\* JwtRegistry.add_account: the entry built from the parameters
RegistryEntry(claims, access_max_age, refresh_max_age, grace_interval) ==
    [k \in {"access-max-age", "refresh-max-age", "grace-interval", "claims"} |->
        CASE k = "access-max-age" -> access_max_age
          [] k = "refresh-max-age" -> refresh_max_age
          [] k = "grace-interval" -> grace_interval
          [] k = "claims" -> IF Truthy(claims) THEN claims ELSE EmptyDict]

\* JwtData.add_account: the entry built from the parameters (token-audience,
\* token-nonce and request-timeout are stored too, and no local issuance reads them)
DataEntry(reference_url, claims, access_max_age, refresh_max_age, grace_interval, remote_provider) ==
    [k \in {"reference-url", "access-max-age", "refresh-max-age", "grace-interval",
            "remote-provider", "claims"} |->
        CASE k = "reference-url" -> reference_url
          [] k = "access-max-age" -> access_max_age
          [] k = "refresh-max-age" -> refresh_max_age
          [] k = "grace-interval" -> grace_interval
          [] k = "remote-provider" -> remote_provider
          [] k = "claims" -> IF Truthy(claims) THEN claims ELSE EmptyDict]

\* an add_account that stores the entry whether or not the account has one
JwtRegistry_add_account_overwrite(account_id, claims, access_max_age, refresh_max_age, grace_interval) ==
    /\ rev = "registry"
    /\ access_registry' =
         [access_registry EXCEPT ![account_id] =
             <<RegistryEntry(claims, access_max_age, refresh_max_age, grace_interval)>>]
    /\ result' = [ReturnedNone("add_account", account_id) EXCEPT !.args =
                     <<RegistryEntry(claims, access_max_age, refresh_max_age, grace_interval)>>]
    /\ UNCHANGED <<rev, env, kept, threads, ACCOUNT_LIMIT, store, db_conn, draws, now>>

\* JwtRegistry.add_account (result.args: the entry the parameters describe)
JwtRegistry_add_account(account_id, claims, access_max_age, refresh_max_age, grace_interval) ==
    /\ rev = "registry"
    /\ access_registry' =
         IF ~Registered(account_id)
         THEN [access_registry EXCEPT ![account_id] =
                  <<RegistryEntry(claims, access_max_age, refresh_max_age, grace_interval)>>]
         ELSE access_registry
    /\ result' = [ReturnedNone("add_account", account_id) EXCEPT !.args =
                     <<RegistryEntry(claims, access_max_age, refresh_max_age, grace_interval)>>]
    /\ UNCHANGED <<rev, env, kept, threads, ACCOUNT_LIMIT, store, db_conn, draws, now>>

\* JwtData.add_account (result.args: the entry the parameters describe)
JwtData_add_account(account_id, reference_url, claims, access_max_age, refresh_max_age, grace_interval, remote_provider) ==
    /\ rev = "data"
    /\ access_registry' =
         IF ~Registered(account_id)
         THEN [access_registry EXCEPT ![account_id] =
                  <<DataEntry(reference_url, claims, access_max_age, refresh_max_age,
                              grace_interval, remote_provider)>>]
         ELSE access_registry
    /\ result' = [ReturnedNone("add_account", account_id) EXCEPT !.args =
                     <<DataEntry(reference_url, claims, access_max_age, refresh_max_age,
                                 grace_interval, remote_provider)>>]
    /\ UNCHANGED <<rev, env, kept, threads, ACCOUNT_LIMIT, store, db_conn, draws, now>>

\* the clock advances
Tick ==
    /\ now < MaxTime
    /\ now' = now + 1
    /\ UNCHANGED <<rev, env, kept, threads, ACCOUNT_LIMIT, access_registry, store, db_conn, draws, result>>

\* ------------------------------------------------------------ the token table

\* a row of the token table (its algorithm and decoder columns are the same in every row)
Row(kid, account, token) == [kid |-> kid, account |-> account, token |-> token]

\* every order a SELECT without ORDER BY may return the rows of a set in
Orderings(S) ==
    IF S = {} THEN {<<>>}
    ELSE {q \in [1..Cardinality(S) -> S] : \A i, j \in 1..Cardinality(S) : i # j => q[i] # q[j]}

\* the ids of a list of rows, as a set
Kids(ids) == {ids[i] : i \in 1..Len(ids)}

\* the failures a database operation of an issuance can report
FailPoints ==
    {"none", "connect", "select", "decode", "delete_expired", "delete_oldest",
     "insert", "lookup", "update", "commit"}

\* the payload's exp and iat, sys.maxsize when the claim is missing
ExpOf(payload) == IF "exp" \in DOMAIN payload THEN payload["exp"] ELSE MaxSize
IatOf(payload) == IF "iat" \in DOMAIN payload THEN payload["iat"] ELSE MaxSize

\* jwt_registry.py: what the loop over recs has found before it reads recs[i]
ScanStart == [oldest_ts |-> MaxSize, oldest_id |-> 0, existing_ids |-> <<>>, expired |-> <<>>]

\* jwt_registry.py: one turn of the loop, on the row rec
RegistryScanStep(st, rec, just_now) ==
    LET token_payload == jwt_get_claims(rec.token).payload
        exp == ExpOf(token_payload)
        iat == IatOf(token_payload)
    IN  [oldest_ts |-> IF iat < st.oldest_ts THEN iat ELSE st.oldest_ts,
         oldest_id |-> IF iat < st.oldest_ts THEN rec.kid ELSE st.oldest_id,
         existing_ids |-> Append(st.existing_ids, rec.kid),
         expired |-> IF exp < just_now THEN Append(st.expired, rec.kid) ELSE st.expired]

RECURSIVE RegistryScan(_, _, _, _)
\* jwt_registry.py: the loop over recs, from recs[i] on
RegistryScan(recs, i, st, just_now) ==
    IF i > Len(recs) THEN st
    ELSE RegistryScan(recs, i + 1, RegistryScanStep(st, recs[i], just_now), just_now)

\* jwt_data.py: one turn of the loop, on the row rec (oldest takes the row's exp)
DataScanStep(st, rec, just_now) ==
    LET token_payload == jwt_get_claims(rec.token).payload
        exp == ExpOf(token_payload)
        iat == IatOf(token_payload)
    IN  [oldest_ts |-> IF iat < st.oldest_ts THEN exp ELSE st.oldest_ts,
         oldest_id |-> IF iat < st.oldest_ts THEN rec.kid ELSE st.oldest_id,
         existing_ids |-> Append(st.existing_ids, rec.kid),
         expired |-> IF exp < just_now THEN Append(st.expired, rec.kid) ELSE st.expired]

RECURSIVE DataScan(_, _, _, _)
\* jwt_data.py: the loop over recs, from recs[i] on
DataScan(recs, i, st, just_now) ==
    IF i > Len(recs) THEN st
    ELSE DataScan(recs, i + 1, DataScanStep(st, recs[i], just_now), just_now)

\* a cap that 0 does not disable
OverLimit_zero_cap(n_recs, n_expired) == ACCOUNT_LIMIT <= n_recs - n_expired

\* a cap that counts the expired rows too
OverLimit_counts_expired(n_recs, n_expired) == 0 < ACCOUNT_LIMIT /\ ACCOUNT_LIMIT <= n_recs

\* a cap that is applied one row too late
OverLimit_late(n_recs, n_expired) == 0 < ACCOUNT_LIMIT /\ ACCOUNT_LIMIT < n_recs - n_expired

\* whether the oldest row is deleted to make way for the new one
OverLimit(n_recs, n_expired) == 0 < ACCOUNT_LIMIT /\ ACCOUNT_LIMIT <= n_recs - n_expired

\* what a call of _jwt_persist_token leaves: the table as the connection sees it,
\* and either the storage id it returns or the fact that it raised
Persisted(table, token_id) == [table |-> table, raised |-> FALSE, token_id |-> token_id]
PersistRaised(table) == [table |-> table, raised |-> TRUE, token_id |-> 0]

\* the deletions and the insert of _jwt_persist_token, given what its loop found:
\* the rows they leave, and whether one of them raised
PersistWrites(table, account_id, jwt_token, recs, st, new_kid, fail) ==
    LET after_expired == {r \in table : r.kid \notin Kids(st.expired)}
        evict == OverLimit(Len(recs), Len(st.expired))
        after_oldest == IF evict THEN {r \in after_expired : r.kid # st.oldest_id}
                        ELSE after_expired
        after_insert == after_oldest \cup {Row(new_kid, account_id, jwt_token)}
    IN  IF fail = "select" THEN PersistRaised(table)
        ELSE IF fail = "decode" /\ Len(recs) > 0 THEN PersistRaised(table)
        ELSE IF fail = "delete_expired" /\ Len(st.expired) > 0 THEN PersistRaised(table)
        ELSE IF fail = "delete_oldest" /\ evict THEN PersistRaised(after_expired)
        ELSE IF fail = "insert" THEN PersistRaised(after_oldest)
        ELSE Persisted(after_insert, 0)

\* a lookup that takes the first row of the account for the one just inserted
JwtRegistry_persist_token_first_row(table, account_id, jwt_token, recs, just_now, new_kid, fail) ==
    LET st == RegistryScan(recs, 1, ScanStart, just_now)
        w == PersistWrites(table, account_id, jwt_token, recs, st, new_kid, fail)
        reply == {r \in w.table : r.account = account_id}
    IN  IF w.raised THEN w
        ELSE IF fail = "lookup" \/ reply = {} THEN PersistRaised(w.table)
        ELSE Persisted(w.table, (CHOOSE r \in reply : \A q \in reply : r.kid <= q.kid).kid)

\* jwt_registry.py, _jwt_persist_token: recs is the account's rows as selected
JwtRegistry_persist_token(table, account_id, jwt_token, recs, just_now, new_kid, fail) ==
    LET st == RegistryScan(recs, 1, ScanStart, just_now)
        w == PersistWrites(table, account_id, jwt_token, recs, st, new_kid, fail)
        \* the account's rows whose id is none of existing_ids: exactly one is required
        reply == {r \in w.table : r.account = account_id /\ r.kid \notin Kids(st.existing_ids)}
    IN  IF w.raised THEN w
        ELSE IF fail = "lookup" \/ Cardinality(reply) # 1 THEN PersistRaised(w.table)
        ELSE Persisted(w.table, (CHOOSE r \in reply : TRUE).kid)

\* jwt_data.py, _jwt_persist_token: recs is the account's rows as selected
JwtData_persist_token(table, account_id, jwt_token, recs, just_now, new_kid, fail) ==
    LET st == DataScan(recs, 1, ScanStart, just_now)
        w == PersistWrites(table, account_id, jwt_token, recs, st, new_kid, fail)
        \* the rows that hold the candidate token: the first is taken
        reply == {r \in w.table : r.token = jwt_token}
    IN  IF w.raised THEN w
        ELSE IF fail = "lookup" \/ reply = {} THEN PersistRaised(w.table)
        ELSE Persisted(w.table, (CHOOSE r \in reply : TRUE).kid)

\* -------------------------------------------------------------- the issuer

\* the claims a caller passes to issue_tokens
AccountClaims == {EmptyDict}

\* str_random(size=32, ...): a value never returned before
str_random == draws + 1
\* the storage id the table assigns to the row an issuance inserts: ids grow, and
\* an issuance that inserts nothing leaves a gap
next_kid == draws + 1

\* a select that leaves the account out of its where clause
AccountRows_any_account(table, account_id) == table

\* the account's rows, as a connection that sees table selects them
AccountRows(table, account_id) == {r \in table : r.account = account_id}

\* an update that writes every row
db_update_every_row(table, token_id, token) == {[r EXCEPT !.token = token] : r \in table}

\* an update that writes nothing
db_update_nothing(table, token_id, token) == table

\* db_update: the token of the row whose id is token_id
db_update(table, token_id, token) ==
    {IF r.kid = token_id THEN [r EXCEPT !.token = token] ELSE r : r \in table}

\* claims that the caller's are merged into last
RegistryRefreshClaims_caller_last(account_id, account_data, account_claims, jti, just_now) ==
    LET c2 == Put(Put(Put(account_data["claims"], "jti", jti), "sub", account_id), "iat", just_now)
        c3 == Put(c2, "valid-from", isoformat(just_now))
        exp == just_now + account_data["refresh-max-age"]
    IN  Update(Put(Put(c3, "exp", exp), "valid-until", isoformat(exp)), account_claims)

\* jwt_registry.py 254-275: the claims of the refresh token
RegistryRefreshClaims(account_id, account_data, account_claims, jti, just_now) ==
    LET c1 == Update(account_data["claims"], account_claims)
        c2 == Put(Put(Put(c1, "jti", jti), "sub", account_id), "iat", just_now)
        grace_interval == account_data["grace-interval"]
        c3 == IF grace_interval # 0
              THEN Put(Put(c2, "nbf", just_now + grace_interval),
                       "valid-from", isoformat(just_now + grace_interval))
              ELSE Put(c2, "valid-from", isoformat(just_now))
        exp == just_now + account_data["refresh-max-age"]
    IN  Put(Put(c3, "exp", exp), "valid-until", isoformat(exp))

\* the dict JwtRegistry.issue_tokens returns
RegistryTokenData(access_token, current_claims, refresh_token) ==
    [k \in {"access-token", "created-in", "expires-in", "refresh-token"} |->
        CASE k = "access-token" -> access_token
          [] k = "created-in" -> current_claims["iat"]
          [] k = "expires-in" -> current_claims["exp"]
          [] k = "refresh-token" -> refresh_token]

\* a dict whose expires_in is the refresh token's
DataTokenData_refresh_exp(access_token, current_claims, refresh_token) ==
    [k \in {"access_token", "created_in", "expires_in", "refresh_token"} |->
        CASE k = "access_token" -> access_token
          [] k = "created_in" -> current_claims["iat"]
          [] k = "expires_in" -> refresh_token.payload["exp"]
          [] k = "refresh_token" -> refresh_token]

\* the dict JwtData.issue_tokens returns
DataTokenData(access_token, current_claims, refresh_token) ==
    [k \in {"access_token", "created_in", "expires_in", "refresh_token"} |->
        CASE k = "access_token" -> access_token
          [] k = "created_in" -> current_claims["iat"]
          [] k = "expires_in" -> current_claims["exp"]
          [] k = "refresh_token" -> refresh_token]

\* a wrap-up that does not ask whose connection it is
WrapUp_any_connection(use_conn, errors) == IF errors THEN <<"rollback">> ELSE <<"commit">>

\* jwt_registry.py 306-315: the wrap-up of the transaction, which is left to the caller
\* whose connection it is
WrapUp(use_conn, errors) ==
    IF use_conn THEN <<>>
    ELSE IF errors THEN <<"rollback">>
    ELSE <<"commit">>

\* JwtRegistry.issue_tokens; use_conn: the caller passes its open connection as db_conn
JwtRegistry_issue_tokens(account_id, account_claims, use_conn, fail) ==
    /\ rev = "registry"
    /\ IF use_conn THEN db_conn # <<>> ELSE db_conn = <<>>
    /\ IF ~Registered(account_id)
       THEN /\ result' = Raised("issue_tokens", account_id, "RuntimeError", NoAccessData)
            /\ UNCHANGED <<store, db_conn, draws>>
       ELSE /\ draws < MaxDraws
            /\ LET account_data == Entry(account_id)
                   refresh_claims == RegistryRefreshClaims(account_id, account_data,
                                                           account_claims, str_random, now)
                   candidate == jwt_encode(refresh_claims, KidOf(ChrR, 0))
                   table == IF use_conn THEN db_conn[1] ELSE store
                   \* what db_connect has done when it has given a connection
                   connected == IF use_conn THEN <<>> ELSE <<"connect">>
               IN  IF ~use_conn /\ fail = "connect"
                   THEN /\ result' = Raised("issue_tokens", account_id, "RuntimeError", DatabaseError)
                        /\ UNCHANGED <<store, db_conn, draws>>
                   ELSE \E recs \in Orderings(AccountRows(table, account_id)) :
                        LET p == JwtRegistry_persist_token(table, account_id, candidate,
                                                           recs, now, next_kid, fail)
                            refresh_token == jwt_encode(refresh_claims, KidOf(ChrR, p.token_id))
                            updated == db_update(p.table, p.token_id, refresh_token)
                            access_claims ==
                                Put(refresh_claims, "exp", now + account_data["access-max-age"])
                            access_token == jwt_encode(access_claims, KidOf(ChrA, p.token_id))
                        IN  IF p.raised
                            THEN \* the exception of _jwt_persist_token leaves issue_tokens,
                                 \* past the wrap-up of the transaction: nothing is
                                 \* committed, and what was written stays in the caller's
                                 \* transaction
                                 /\ result' =
                                      WithTx(Raised("issue_tokens", account_id, "RuntimeError", DatabaseError),
                                             connected)
                                 /\ store' = store
                                 /\ db_conn' = IF use_conn THEN <<p.table>> ELSE db_conn
                                 /\ draws' = IF use_conn /\ (\E r \in p.table : r.kid = next_kid)
                                             THEN draws + 1 ELSE draws
                            ELSE LET errors == fail = "update"
                                     wrapup == WrapUp(use_conn, errors)
                                     commits == wrapup = <<"commit">>
                                 IN  IF errors \/ (commits /\ fail = "commit")
                                     THEN \* db_update or db_commit has failed
                                          /\ result' =
                                               WithTx(Raised("issue_tokens", account_id,
                                                             "RuntimeError", DatabaseError),
                                                      connected \o wrapup)
                                          /\ store' = store
                                          /\ db_conn' = IF use_conn THEN <<p.table>> ELSE db_conn
                                          /\ draws' = IF use_conn THEN draws + 1 ELSE draws
                                     ELSE /\ result' =
                                               WithTx(Returned("issue_tokens", account_id,
                                                               RegistryTokenData(access_token,
                                                                   access_claims, refresh_token)),
                                                      connected \o wrapup)
                                          /\ store' = IF commits THEN updated ELSE store
                                          /\ db_conn' = IF use_conn THEN <<updated>> ELSE db_conn
                                          /\ draws' = draws + 1
    /\ UNCHANGED <<rev, env, kept, threads, ACCOUNT_LIMIT, access_registry, now>>

\* the JSON a provider answers a request it serves with
ProviderJson ==
    {("access_token" :> "at") @@ ("created_in" :> 7) @@ ("expires_in" :> 9)
        @@ ("refresh_token" :> "rt"),
     ("access_token" :> "at") @@ ("created_in" :> 7) @@ ("expires_in" :> 9)
        @@ ("refresh_token" :> "rt") @@ ("Token-Type" :> "Bearer")}

\* the Response of requests.post: its status_code, its reason, its text and, when it
\* bears one, what its json() gives
HttpResponse(status_code, reason, text, json) ==
    [status_code |-> status_code, reason |-> reason, text |-> text, json |-> json]

\* the responses of a provider that honours its contract: a JSON body with the
\* statuses that tell a request was served, and a text, or none, with the others
ProviderResponses ==
    {HttpResponse(200, "OK", "", <<j>>) : j \in ProviderJson}
        \cup {HttpResponse(201, "Created", "", <<CHOOSE j \in ProviderJson : TRUE>>),
              HttpResponse(202, "Accepted", "", <<CHOOSE j \in ProviderJson : TRUE>>)}
        \cup {HttpResponse(204, "No Content", "", <<>>), HttpResponse(302, "Found", "", <<>>),
              HttpResponse(401, "Unauthorized", "denied", <<>>),
              HttpResponse(500, "Internal Server Error", "boom", <<>>)}

\* a request that any 2xx status makes successful
RequestSucceeded_any_2xx(status_code) == status_code \div 100 = 2

\* jwt_data.py 354: was the request successful ?
RequestSucceeded(status_code) == status_code \in {200, 201, 202}

\* jwt_data.py 361-363: the message of a request that failed, in its parts
RequestFailedMessage(reference_url, reason, text) ==
    <<"POST request to", reference_url, "failed:", reason>>
        \o (IF text # "" THEN <<"-", text>> ELSE <<>>)

\* _jwt_request_token: the requests it posts, what it returns, and the errors it
\* appends; response is what the provider answers the one request with
jwt_request_token(reference_url, claims, response) ==
    [posted |-> <<[url |-> reference_url, json |-> claims]>>,
     response |-> response,
     result |-> IF RequestSucceeded(response.status_code) THEN response.json ELSE <<>>,
     errors |-> IF RequestSucceeded(response.status_code) THEN <<>>
                ELSE <<RequestFailedMessage(reference_url, response.reason, response.text)>>]

\* an issuer that takes every account for a local one
IsRemote_never(account_data) == FALSE

\* jwt_data.py 227: where is the JWT service provider ?
IsRemote(account_data) == account_data["remote-provider"]

\* jwt_data.py 218-224: the claims before the provider, local or remote, is chosen
DataBaseClaims(account_id, account_data, account_claims, jti) ==
    Put(Put(Put(Update(account_data["claims"], account_claims), "jti", jti),
            "sub", account_id), "iss", account_data["reference-url"])

\* jwt_data.py 246-259: the claims of the refresh token, once valid-from is set
\* (reached only when the grace interval is not set or the claims hold an nbf)
DataRefreshClaims(c1, account_data, just_now) ==
    LET c2 == Put(c1, "iat", just_now)
        c3 == IF account_data["grace-interval"] # 0
              THEN Put(c2, "valid-from", isoformat(c2["nbf"]))
              ELSE Put(c2, "valid-from", isoformat(just_now))
        exp == just_now + account_data["refresh-max-age"]
    IN  Put(Put(c3, "exp", exp), "valid-until", isoformat(exp))

\* JwtData.issue_tokens; commits: whether db_commit, called after a failed db_update
\* with the errors it reported, commits what the connection has written
JwtData_issue_tokens(account_id, account_claims, fail) ==
    /\ rev = "data"
    /\ IF ~Registered(account_id)
       THEN /\ result' = Raised("issue_tokens", account_id, "RuntimeError", NoAccessData)
            /\ UNCHANGED <<access_registry, store, draws>>
       ELSE /\ draws < MaxDraws
            /\ LET account_data == Entry(account_id)
                   c1 == DataBaseClaims(account_id, account_data, account_claims, str_random)
                   grace_interval == account_data["grace-interval"]
                   \* jwt_data.py 250: the entry itself is given an nbf
                   with_nbf == [access_registry EXCEPT ![account_id] =
                                   <<Put(account_data, "nbf", now + grace_interval)>>]
               IN  IF IsRemote(account_data)
                   THEN \* result.args: what _jwt_request_token has posted and got
                        /\ \E response \in ProviderResponses :
                              LET q == jwt_request_token(c1["iss"], c1, response)
                              IN  result' =
                                     IF q.errors # <<>>
                                     THEN [Raised("issue_tokens", account_id, "RuntimeError",
                                                  RequestFailed) EXCEPT !.args = q]
                                     ELSE [ReturnedNone("issue_tokens", account_id) EXCEPT
                                              !.ret = q.result, !.args = q]
                        /\ draws' = draws + 1
                        /\ UNCHANGED <<access_registry, store>>
                   ELSE IF grace_interval # 0 /\ "nbf" \notin DOMAIN c1
                   THEN \* current_claims["nbf"] is read, and was never set
                        /\ access_registry' = with_nbf
                        /\ result' = Raised("issue_tokens", account_id, "KeyError", "nbf")
                        /\ UNCHANGED <<store, draws>>
                   ELSE LET refresh_claims == DataRefreshClaims(c1, account_data, now)
                            candidate == jwt_encode(refresh_claims, KidOf(ChrR, 0))
                        IN  /\ access_registry' =
                                 IF grace_interval # 0 THEN with_nbf ELSE access_registry
                            /\ IF fail = "connect"
                               THEN /\ result' = Raised("issue_tokens", account_id, "RuntimeError", DatabaseError)
                                    /\ UNCHANGED <<store, draws>>
                               ELSE \E recs \in Orderings(AccountRows(store, account_id)) :
                                    LET p == JwtData_persist_token(store, account_id, candidate,
                                                                   recs, now, next_kid, fail)
                                        refresh_token ==
                                            jwt_encode(refresh_claims, KidOf(ChrR, p.token_id))
                                        updated == db_update(p.table, p.token_id, refresh_token)
                                        access_claims ==
                                            Put(refresh_claims, "exp",
                                                now + account_data["access-max-age"])
                                        access_token ==
                                            jwt_encode(access_claims, KidOf(ChrA, p.token_id))
                                    IN  IF p.raised \/ fail = "commit"
                                        THEN \* nothing is committed
                                             /\ result' =
                                                  WithTx(Raised("issue_tokens", account_id,
                                                                "RuntimeError", DatabaseError),
                                                         IF p.raised THEN <<"connect">>
                                                         ELSE <<"connect", "commit">>)
                                             /\ UNCHANGED <<store, draws>>
                                        ELSE IF fail = "update"
                                        THEN \* db_commit is called all the same
                                             /\ result' =
                                                  WithTx(Raised("issue_tokens", account_id,
                                                                "RuntimeError", DatabaseError),
                                                         <<"connect", "commit">>)
                                             /\ \E commits \in BOOLEAN :
                                                   /\ store' = IF commits THEN p.table ELSE store
                                                   /\ draws' = IF commits THEN draws + 1
                                                               ELSE draws
                                        ELSE /\ result' =
                                                  WithTx(Returned("issue_tokens", account_id,
                                                                  DataTokenData(access_token,
                                                                                access_claims,
                                                                                refresh_token)),
                                                         <<"connect", "commit">>)
                                             /\ store' = updated
                                             /\ draws' = draws + 1
    /\ UNCHANGED <<rev, env, kept, threads, ACCOUNT_LIMIT, db_conn, now>>

\* JwtRegistry.remove_account: the DELETE statement is built from JwtDbConfig.value,
\* which no StrEnum class has, so the call ends there, after the entry is popped
JwtRegistry_remove_account(account_id) ==
    /\ rev = "registry"
    /\ access_registry' = [access_registry EXCEPT ![account_id] = <<>>]
    /\ result' = Raised("remove_account", account_id, "AttributeError", "value")
    /\ UNCHANGED <<rev, env, kept, threads, ACCOUNT_LIMIT, store, db_conn, draws, now>>

\* JwtData.remove_account; deleted: whether db_delete, whose errors are not collected
\* (errors=None), deletes the account's rows
JwtData_remove_account(account_id, deleted) ==
    /\ rev = "data"
    /\ access_registry' = [access_registry EXCEPT ![account_id] = <<>>]
    /\ store' = IF deleted THEN {r \in store : r.account # account_id} ELSE store
    /\ result' = Returned("remove_account", account_id, Registered(account_id))
    /\ UNCHANGED <<rev, env, kept, threads, ACCOUNT_LIMIT, db_conn, draws, now>>

\* ------------------------------------------------------ standalone tokens

\* a value passed as nature: a str (its code points) or something else
StrValue(chars) == [isStr |-> TRUE, chars |-> chars]
NotAStr == [isStr |-> FALSE, chars |-> <<>>]
\* a value passed as duration: an int or something else
IntValue(n) == [isInt |-> TRUE, n |-> n]
NotAnInt == [isInt |-> FALSE, n |-> 0]

\* jwt_registry.py 179-180: the nature is a single letter of A..Z
ValidNature(nature) ==
    nature.isStr /\ Len(nature.chars) = 1 /\ ~(nature.chars[1] < ChrA) /\ ~(nature.chars[1] > ChrZ)

\* a validation that turns a duration of exactly 60 down
ValidDuration_above(duration) == duration.isInt /\ duration.n > MinDuration

\* jwt_registry.py 182: the duration is an int of at least 60
ValidDuration(duration) == duration.isInt /\ ~(duration.n < MinDuration)

\* claims whose exp forgets the duration
TokenClaims_without_duration(account_id, account_data, claims, grace_interval, duration, jti, just_now) ==
    Put(Put(Put(Put(EmptyDict, "jti", jti), "sub", account_id), "iat", just_now),
        "exp", just_now)

\* jwt_registry.py 193-214: the claims of a standalone token
TokenClaims(account_id, account_data, claims, grace_interval, duration, jti, just_now) ==
    LET base == account_data["claims"]
        c0 == IF "iss" \in DOMAIN base /\ base["iss"] # "" THEN "iss" :> base["iss"]
              ELSE EmptyDict
        c1 == IF Truthy(claims) THEN Update(c0, claims) ELSE c0
        c2 == Put(Put(Put(c1, "jti", jti), "sub", account_id), "iat", just_now)
        c3 == IF grace_interval # 0
              THEN Put(Put(c2, "nbf", just_now + grace_interval),
                       "valid-from", isoformat(just_now + grace_interval))
              ELSE Put(c2, "valid-from", isoformat(just_now))
        exp == just_now + duration
    IN  Put(Put(c3, "exp", exp), "valid-until", isoformat(exp))

\* the arguments of a call of issue_token
TokenArgs(nature, duration, grace_interval, claims) ==
    [nature |-> nature, duration |-> duration, grace_interval |-> grace_interval,
     claims |-> claims]

\* an issue_token that looks the account up before it validates its arguments
issue_token_lookup_first(account_id, nature, duration, grace_interval, claims) ==
    IF ~Registered(account_id)
    THEN Raised("issue_token", account_id, "RuntimeError", NoAccessData)
    ELSE IF ~ValidNature(nature)
    THEN Raised("issue_token", account_id, "RuntimeError", InvalidNature)
    ELSE IF ~ValidDuration(duration)
    THEN Raised("issue_token", account_id, "RuntimeError", InvalidDuration)
    ELSE Returned("issue_token", account_id,
                  jwt_encode(TokenClaims(account_id, Entry(account_id), claims, grace_interval,
                                         duration.n, str_random, now),
                             nature.chars))

\* JwtRegistry.issue_token: what the call returns or raises
issue_token(account_id, nature, duration, grace_interval, claims) ==
    IF ~ValidNature(nature)
    THEN Raised("issue_token", account_id, "RuntimeError", InvalidNature)
    ELSE IF ~ValidDuration(duration)
    THEN Raised("issue_token", account_id, "RuntimeError", InvalidDuration)
    ELSE IF ~Registered(account_id)
    THEN Raised("issue_token", account_id, "RuntimeError", NoAccessData)
    ELSE Returned("issue_token", account_id,
                  jwt_encode(TokenClaims(account_id, Entry(account_id), claims, grace_interval,
                                         duration.n, str_random, now),
                             nature.chars))

\* an issue_token that keeps the token it returns in the table
JwtRegistry_issue_token_persisted(account_id, nature, duration, grace_interval, claims) ==
    /\ rev = "registry"
    /\ LET r == issue_token(account_id, nature, duration, grace_interval, claims)
       IN  /\ r.raised = "" => draws < MaxDraws
           /\ draws' = IF r.raised = "" THEN draws + 1 ELSE draws
           /\ store' = IF r.raised = "" THEN store \cup {Row(next_kid, account_id, r.ret[1])}
                       ELSE store
           /\ result' = [r EXCEPT !.args = TokenArgs(nature, duration, grace_interval, claims)]
    /\ UNCHANGED <<rev, env, kept, threads, ACCOUNT_LIMIT, access_registry, db_conn, now>>

\* JwtRegistry.issue_token
JwtRegistry_issue_token(account_id, nature, duration, grace_interval, claims) ==
    /\ rev = "registry"
    /\ LET r == issue_token(account_id, nature, duration, grace_interval, claims)
       IN  /\ r.raised = "" => draws < MaxDraws
           /\ draws' = IF r.raised = "" THEN draws + 1 ELSE draws
           /\ result' = [r EXCEPT !.args = TokenArgs(nature, duration, grace_interval, claims)]
    /\ UNCHANGED <<rev, env, kept, threads, ACCOUNT_LIMIT, access_registry, store, db_conn, now>>

\* the natures tried: "A", "B", "R", "Z", "@", "[", "a", "", "AB", and one that is no str
Natures ==
    {StrValue(<<65>>), StrValue(<<66>>), StrValue(<<82>>), StrValue(<<90>>), StrValue(<<64>>),
     StrValue(<<91>>), StrValue(<<97>>), StrValue(<<>>), StrValue(<<65, 66>>), NotAStr}
\* the durations tried, and one that is no int
Durations == {IntValue(30), IntValue(59), IntValue(60), IntValue(61), NotAnInt}
\* the grace intervals passed to issue_token (0: none)
TokenGraces == {0, 5}
\* the claims passed to issue_token
TokenClaimsGiven ==
    {EmptyDict,
     "iss" :> "evil",
     ("iss" :> "evil") @@ ("sub" :> "evil") @@ ("jti" :> 0) @@ ("iat" :> 77)
        @@ ("exp" :> 88) @@ ("nbf" :> 99) @@ ("name" :> "n")}
\* the claims an account is registered with, for standalone tokens
TokenBaseClaims == {EmptyDict, "iss" :> "svc"}

\* the operations on two accounts, at one time of the clock, when the database answers
\* every request
Next ==
    \/ \E a \in Accounts, c \in BaseClaims, ama \in AccessAges, rma \in LongRefreshAges,
          g \in GraceIntervals :
          JwtRegistry_add_account(a, c, ama, rma, g)
    \/ \E a \in Accounts, url \in ReferenceUrls, c \in BaseClaims, ama \in AccessAges,
          rma \in LongRefreshAges, g \in GraceIntervals, rp \in RemoteFlags :
          JwtData_add_account(a, url, c, ama, rma, g, rp)
    \/ \E a \in Accounts : JwtRegistry_remove_account(a)
    \/ \E a \in Accounts : JwtData_remove_account(a, TRUE)
    \/ \E a \in Accounts, c \in AccountClaims :
          JwtRegistry_issue_tokens(a, c, FALSE, "none")
    \/ \E a \in Accounts, c \in AccountClaims :
          JwtData_issue_tokens(a, c, "none")

Spec == Init /\ [][Next]_vars

\* the operations on one account with a local provider and no grace interval, as the
\* clock advances, when any request to the database may fail
NextFail ==
    \/ \E c \in BaseClaims, ama \in AccessAges, rma \in RefreshAges, g \in {0} :
          JwtRegistry_add_account("u1", c, ama, rma, g)
    \/ \E url \in ReferenceUrls, c \in BaseClaims, ama \in AccessAges,
          rma \in RefreshAges, g \in {0}, rp \in {FALSE} :
          JwtData_add_account("u1", url, c, ama, rma, g, rp)
    \/ JwtRegistry_remove_account("u1")
    \/ \E deleted \in BOOLEAN : JwtData_remove_account("u1", deleted)
    \/ \E c \in AccountClaims, fail \in FailPoints :
          JwtRegistry_issue_tokens("u1", c, FALSE, fail)
    \/ \E c \in AccountClaims, fail \in FailPoints :
          JwtData_issue_tokens("u1", c, fail)
    \/ Tick

SpecFail == Init /\ [][NextFail]_vars

\* standalone tokens: every kind of nature and duration with no other argument, and
\* every kind of grace interval and claims with a nature and durations that pass
NextToken ==
    \/ \E c \in TokenBaseClaims, ama \in AccessAges, rma \in RefreshAges :
          JwtRegistry_add_account("u1", c, ama, rma, 0)
    \/ \E n \in Natures, d \in Durations :
          JwtRegistry_issue_token("u1", n, d, 0, EmptyDict)
    \/ \E d \in {IntValue(60), IntValue(61)}, g \in TokenGraces, c \in TokenClaimsGiven :
          JwtRegistry_issue_token("u1", StrValue(<<66>>), d, g, c)
    \/ Tick

SpecToken == Init /\ [][NextToken]_vars

\* the claims an account is registered with, and the ones a caller passes, when they
\* name the claims the issuer computes
PairBaseClaims == {("iss" :> "svc") @@ ("sub" :> "root") @@ ("name" :> "base")}
PairClaimsGiven ==
    {EmptyDict,
     ("sub" :> "evil") @@ ("jti" :> 0) @@ ("iat" :> 77) @@ ("exp" :> 88) @@ ("nbf" :> 99)
        @@ ("name" :> "n")}
\* the access age and the refresh age of a pair: nothing requires the second to be
\* the greater
PairAges == {<<1, 2>>, <<2, 1>>}

\* the tokens of one account, whatever it is registered with and whatever the caller
\* passes, as the clock advances and the database answers every request
NextPair ==
    \/ \E c \in PairBaseClaims, ages \in PairAges, g \in GraceIntervals :
          JwtRegistry_add_account("u1", c, ages[1], ages[2], g)
    \/ \E url \in ReferenceUrls, c \in PairBaseClaims, ages \in PairAges,
          g \in GraceIntervals, rp \in RemoteFlags :
          JwtData_add_account("u1", url, c, ages[1], ages[2], g, rp)
    \/ \E c \in PairClaimsGiven : JwtRegistry_issue_tokens("u1", c, FALSE, "none")
    \/ \E c \in PairClaimsGiven : JwtData_issue_tokens("u1", c, "none")
    \/ \E n \in {StrValue(<<66>>), StrValue(<<64>>)}, g \in TokenGraces, c \in PairClaimsGiven :
          JwtRegistry_issue_token("u1", n, IntValue(60), g, c)
    \/ Tick

\* ------------------------------------------------------ the request verifier

\* the value of a request's Authorization header: None, or a str, which is held as
\* str.split(" ") cuts it, a word being a plain text or the text of a token
Word(text) == [text |-> text, jwt |-> <<>>]
TokenWord(token) == [text |-> "", jwt |-> <<token>>]
Header(words) == [present |-> TRUE, words |-> words]
NoHeader == [present |-> FALSE, words |-> <<>>]

\* Response(response=..., status=...)
Response(response, status) == [response |-> response, status |-> status]

\* what the signer's failures say
NotAToken == "Not enough segments"
AlgorithmNotAllowed == "The specified alg value is not allowed"
BadSignature == "Signature verification failed"
Expired == "Signature has expired"
Immature == "The token is not yet valid (nbf)"

\* whether key, used with algorithm, verifies the signature sig
Verifies(sig, key, algorithm) ==
    /\ sig.algorithm = algorithm
    /\ IF algorithm \in {"HS256", "HS512"}
       THEN key.kind = "bytes" /\ key = sig.key
       ELSE sig.key.kind = "private" /\ key = PublicKey(sig.key.id)

\* jwt_validate_token(token, key, algorithm): "" when the token is valid, and else what
\* the exception raised says. jwt_pomes.py imports it from jwt_data.py, which does not
\* define it: this is the decoding and validating the specification describes
jwt_validate_token(word, key, algorithm) ==
    IF word.jwt = <<>> THEN NotAToken
    ELSE LET token == word.jwt[1]
         IN  IF token.header.alg # algorithm THEN AlgorithmNotAllowed
             ELSE IF ~Verifies(token.sig, key, algorithm) THEN BadSignature
             ELSE IF "exp" \in DOMAIN token.payload /\ token.payload["exp"] <= now THEN Expired
             ELSE IF "nbf" \in DOMAIN token.payload /\ token.payload["nbf"] > now THEN Immature
             ELSE ""

\* a check that takes any scheme followed by a word
startswith_any_scheme(auth_header) == auth_header.present /\ Len(auth_header.words) >= 2

\* jwt_pomes.py 240: auth_header and auth_header.startswith("Bearer ")
startswith_Bearer(auth_header) ==
    /\ auth_header.present
    /\ auth_header.words # <<Word("")>>
    /\ Len(auth_header.words) >= 2
    /\ auth_header.words[1] = Word("Bearer")

\* a verifier that looks the token's account up in the registry
verify_request_registered(auth_header) ==
    IF startswith_Bearer(auth_header)
    THEN LET token == auth_header.words[2]
             key == IF JWT_HS_SECRET_KEY # NoKey THEN JWT_HS_SECRET_KEY ELSE JWT_RSA_PUBLIC_KEY
             e == jwt_validate_token(token, key, JWT_DEFAULT_ALGORITHM)
             known == token.jwt # <<>> => \E a \in Accounts :
                          Registered(a) /\ token.jwt[1].payload["sub"] = a
         IN  [response |-> IF e = "" /\ known THEN <<>>
                           ELSE <<Response(IF e = "" THEN "revoked" ELSE e, 401)>>,
              validated |-> <<token>>]
    ELSE [response |-> <<Response("Authorization failed", 401)>>, validated |-> <<>>]

\* jwt_pomes.py 221-262: the response (<<>> is None: the request is valid), and the
\* tokens that were handed to jwt_validate_token
verify_request(auth_header) ==
    IF startswith_Bearer(auth_header)
    THEN LET token == auth_header.words[2]
             \* JWT_HS_SECRET_KEY or JWT_RSA_PUBLIC_KEY
             key == IF JWT_HS_SECRET_KEY # NoKey THEN JWT_HS_SECRET_KEY ELSE JWT_RSA_PUBLIC_KEY
             e == jwt_validate_token(token, key, JWT_DEFAULT_ALGORITHM)
         IN  [response |-> IF e = "" THEN <<>> ELSE <<Response(e, 401)>>,
              validated |-> <<token>>]
    ELSE [response |-> <<Response("Authorization failed", 401)>>, validated |-> <<>>]

\* the arguments and the trace of a verification: the header of the request, the time
\* it was received at, the tokens handed to the signer, and whether the wrapped
\* function was called
RequestArgs(auth_header, validated, called) ==
    [header |-> auth_header, at |-> now, validated |-> validated, called |-> called]

\* jwt_verify_request(request)
jwt_verify_request(auth_header) ==
    /\ LET v == verify_request(auth_header)
       IN  result' = [ReturnedNone("jwt_verify_request", "") EXCEPT
                         !.ret = v.response,
                         !.args = RequestArgs(auth_header, v.validated, FALSE)]
    /\ UNCHANGED <<rev, env, kept, threads, ACCOUNT_LIMIT, access_registry, store, db_conn, draws, now>>

\* what the function that jwt_needed wraps returns
Handled == Response("handled", 200)

\* jwt_pomes.py 45-59: a request to an endpoint that jwt_needed decorates
jwt_needed(auth_header) ==
    /\ LET v == IF JWT_ENDPOINT_URL # "" THEN verify_request(auth_header)
                ELSE [response |-> <<>>, validated |-> <<>>]
       IN  result' = [ReturnedNone("jwt_needed", "") EXCEPT
                         !.ret = IF v.response # <<>> THEN v.response ELSE <<Handled>>,
                         !.args = RequestArgs(auth_header, v.validated, v.response = <<>>)]
    /\ UNCHANGED <<rev, env, kept, threads, ACCOUNT_LIMIT, access_registry, store, db_conn, draws, now>>

\* the tokens a client holds: the ones the last call has issued to it, and the refresh
\* tokens of the table
ClientTokens ==
    (IF result.op = "issue_token" /\ result.ret # <<>> THEN {result.ret[1]} ELSE {})
        \cup (IF result.op = "issue_tokens" /\ result.ret # <<>>
                 /\ "access-token" \in DOMAIN result.ret[1]
              THEN {result.ret[1]["access-token"], result.ret[1]["refresh-token"]}
              ELSE {})
        \cup {r.token : r \in store}

\* the token, signed by someone who does not have the issuer's key
Forged(token) == [token EXCEPT !.sig.key = Bytes("forger")]

\* the Authorization headers of the requests: none, "", "Basic abcdef", "Bearer",
\* "bearer abcdef", "Bearer abcdef", and "Bearer " followed by a token the client holds
\* or by a forged one
Headers ==
    {NoHeader, Header(<<Word("")>>), Header(<<Word("Basic"), Word("abcdef")>>),
     Header(<<Word("Bearer")>>), Header(<<Word("bearer"), Word("abcdef")>>),
     Header(<<Word("Bearer"), Word("abcdef")>>)}
        \cup {Header(<<Word("Bearer"), TokenWord(t)>>) : t \in ClientTokens}
        \cup {Header(<<Word("Bearer"), TokenWord(Forged(t))>>) : t \in ClientTokens}

\* the requests a deployment receives, with the tokens JwtRegistry has issued, as the
\* clock advances
NextVerify ==
    \/ \E c \in BaseClaims, ama \in AccessAges, rma \in LongRefreshAges, g \in GraceIntervals :
          JwtRegistry_add_account("u1", c, ama, rma, g)
    \/ \E c \in AccountClaims : JwtRegistry_issue_tokens("u1", c, FALSE, "none")
    \/ \E g \in TokenGraces :
          JwtRegistry_issue_token("u1", StrValue(<<66>>), IntValue(60), g, EmptyDict)
    \/ \E h \in Headers : jwt_verify_request(h)
    \/ \E h \in Headers : jwt_needed(h)
    \/ Tick

\* JwtRegistry, with a limit of one row for an account, in any deployment
InitVerify == Init /\ rev = "registry" /\ ACCOUNT_LIMIT = 1

SpecVerify == InitVerify /\ [][NextVerify]_vars

\* the client keeps the pair it has just been issued: the tokens of the pair the last
\* call has returned, if it has returned one it signed
ClientKeeps ==
    /\ result.op = "issue_tokens" /\ result.ret # <<>> /\ Cardinality(DOMAIN result.args) = 0
    /\ kept' = IF rev = "registry"
               THEN {result.ret[1]["access-token"], result.ret[1]["refresh-token"]}
               ELSE {result.ret[1]["access_token"], result.ret[1]["refresh_token"]}
    /\ UNCHANGED <<rev, env, threads, ACCOUNT_LIMIT, access_registry, store, db_conn, draws, now, result>>

\* an account that is registered and removed, the pairs issued to it, and the requests
\* that bear a token the client has kept, as the clock advances
NextRevoked ==
    \/ \E c \in BaseClaims : JwtRegistry_add_account("u1", c, 1, 2, 0)
    \/ \E c \in BaseClaims : JwtData_add_account("u1", "url", c, 1, 2, 0, FALSE)
    \/ JwtRegistry_remove_account("u1")
    \/ JwtData_remove_account("u1", TRUE)
    \/ JwtRegistry_issue_tokens("u1", EmptyDict, FALSE, "none")
    \/ JwtData_issue_tokens("u1", EmptyDict, "none")
    \/ ClientKeeps
    \/ \E t \in kept : jwt_verify_request(Header(<<Word("Bearer"), TokenWord(t)>>))
    \/ Tick

\* either revision, with a limit of one row for an account, in any deployment
InitRevoked == Init /\ ACCOUNT_LIMIT = 1

SpecRevoked == InitRevoked /\ [][NextRevoked]_vars

\* the deployment that sets nothing
InitUnset == Init /\ env = UnsetEnv

\* the caller of issue_tokens opens the connection it will pass as db_conn
CallerConnect ==
    /\ db_conn = <<>>
    /\ db_conn' = <<store>>
    /\ result' = ReturnedNone("db_connect", "")
    /\ UNCHANGED <<rev, env, kept, threads, ACCOUNT_LIMIT, access_registry, store, draws, now>>

\* the caller commits its transaction
CallerCommit ==
    /\ db_conn # <<>>
    /\ store' = db_conn[1]
    /\ db_conn' = <<>>
    /\ result' = ReturnedNone("db_commit", "")
    /\ UNCHANGED <<rev, env, kept, threads, ACCOUNT_LIMIT, access_registry, draws, now>>

\* the caller rolls its transaction back
CallerRollback ==
    /\ db_conn # <<>>
    /\ db_conn' = <<>>
    /\ result' = ReturnedNone("db_rollback", "")
    /\ UNCHANGED <<rev, env, kept, threads, ACCOUNT_LIMIT, access_registry, store, draws, now>>

\* JwtRegistry.issue_tokens in a transaction of its own and in the caller's, as the
\* clock advances, when any request to the database may fail
NextNested ==
    \/ \E c \in BaseClaims, ama \in AccessAges, rma \in RefreshAges :
          JwtRegistry_add_account("u1", c, ama, rma, 0)
    \/ \E c \in AccountClaims, use_conn \in BOOLEAN, fail \in FailPoints :
          JwtRegistry_issue_tokens("u1", c, use_conn, fail)
    \/ CallerConnect
    \/ CallerCommit
    \/ CallerRollback
    \/ Tick

\* JwtRegistry, in the deployment that sets nothing
InitNested == InitUnset /\ rev = "registry"

SpecNested == InitNested /\ [][NextNested]_vars

SpecPair == InitUnset /\ [][NextPair]_vars

\* an account that is registered, removed and registered again, and the tokens asked
\* for it meanwhile, when any request to the database may fail
NextAbsent ==
    \/ \E ama \in AccessAges, rma \in RefreshAges :
          JwtRegistry_add_account("u1", EmptyDict, ama, rma, 0)
    \/ \E url \in ReferenceUrls, ama \in AccessAges, rma \in RefreshAges :
          JwtData_add_account("u1", url, EmptyDict, ama, rma, 0, FALSE)
    \/ JwtRegistry_remove_account("u1")
    \/ \E deleted \in BOOLEAN : JwtData_remove_account("u1", deleted)
    \/ \E fail \in FailPoints : JwtRegistry_issue_tokens("u1", EmptyDict, FALSE, fail)
    \/ \E fail \in FailPoints : JwtData_issue_tokens("u1", EmptyDict, fail)
    \/ \E n \in {StrValue(<<66>>), StrValue(<<64>>)}, d \in {IntValue(60), IntValue(59)} :
          JwtRegistry_issue_token("u1", n, d, 0, EmptyDict)
    \/ Tick

SpecAbsent == InitUnset /\ [][NextAbsent]_vars

\* JwtData, in the deployment that sets nothing
InitData == InitUnset /\ rev = "data"

\* an account of JwtData that is registered with a local provider or with a remote
\* one, removed and registered again, and the tokens asked for it, whatever the
\* provider answers and when any request to the database may fail
NextRemote ==
    \/ \E url \in ReferenceUrls, c \in PairBaseClaims, rp \in RemoteFlags :
          JwtData_add_account("u1", url, c, 1, 2, 0, rp)
    \/ \E deleted \in BOOLEAN : JwtData_remove_account("u1", deleted)
    \/ \E c \in PairClaimsGiven, fail \in {"none", "connect", "insert"} :
          JwtData_issue_tokens("u1", c, fail)
    \/ Tick

SpecRemote == InitData /\ [][NextRemote]_vars

\* both revisions, in the deployment that sets nothing but a limit that is no cap
InitNoCap ==
    /\ rev \in Revisions
    /\ env = UnsetEnv
    /\ kept = {}
    /\ threads = NoThreads
    /\ ACCOUNT_LIMIT \in {0, -1}
    /\ access_registry = [a \in Accounts |-> <<>>]
    /\ store = {}
    /\ db_conn = <<>>
    /\ draws = 0
    /\ now = 0
    /\ result = ReturnedNone("init", "")

\* one account that is registered and removed, and the pairs issued to it, as the clock
\* advances and when any request to the database may fail
NextNoCap ==
    \/ JwtRegistry_add_account("u1", EmptyDict, 1, 2, 0)
    \/ JwtData_add_account("u1", "url", EmptyDict, 1, 2, 0, FALSE)
    \/ JwtRegistry_remove_account("u1")
    \/ \E deleted \in BOOLEAN : JwtData_remove_account("u1", deleted)
    \/ \E fail \in FailPoints : JwtRegistry_issue_tokens("u1", EmptyDict, FALSE, fail)
    \/ \E fail \in FailPoints : JwtData_issue_tokens("u1", EmptyDict, fail)
    \/ Tick

SpecNoCap == InitNoCap /\ [][NextNoCap]_vars

\* a row that an earlier run of the service has left in the table: the refresh token
\* it holds was issued at iat and expires at exp
StoredRow(kid, iat, exp) ==
    Row(kid, "u1",
        jwt_encode(("sub" :> "u1") @@ ("jti" :> kid) @@ ("iat" :> iat) @@ ("exp" :> exp),
                   KidOf(ChrR, kid)))

\* the rows the table may hold when the service starts, at the time 0: the oldest,
\* which has expired; two that have not, one younger than the other; and one as young,
\* which expires after the time 0
StoredRows ==
    {StoredRow(11, -3, -1), StoredRow(12, -2, 9), StoredRow(14, -1, 9), StoredRow(15, -1, 0)}

\* both revisions, in the deployment that sets nothing, with a table that holds any of
\* these rows
InitStore ==
    /\ rev \in Revisions
    /\ env = UnsetEnv
    /\ kept = {}
    /\ threads = NoThreads
    /\ ACCOUNT_LIMIT \in Limits
    /\ access_registry = [a \in Accounts |-> <<>>]
    /\ store \in SUBSET StoredRows
    /\ db_conn = <<>>
    /\ draws = 0
    /\ now = 0
    /\ result = ReturnedNone("init", "")

\* the tokens issued for an account whose table has rows already, as the clock
\* advances
NextStore ==
    \/ JwtRegistry_add_account("u1", EmptyDict, 1, 2, 0)
    \/ JwtData_add_account("u1", "url", EmptyDict, 1, 2, 0, FALSE)
    \/ \E fail \in {"none", "insert"} : JwtRegistry_issue_tokens("u1", EmptyDict, FALSE, fail)
    \/ \E fail \in {"none", "update"} : JwtData_issue_tokens("u1", EmptyDict, fail)
    \/ Tick

SpecStore == InitStore /\ [][NextStore]_vars

\* the tokens issued for two accounts that share the table, as the clock advances and
\* when these requests to the database may fail: the failures that leave something
\* written, past the deletions, past the insert, and at the update, which JwtData
\* commits all the same
NextIsolated ==
    \/ \E a \in Accounts : JwtRegistry_add_account(a, EmptyDict, 1, 2, 0)
    \/ \E a \in Accounts : JwtData_add_account(a, "url", EmptyDict, 1, 2, 0, FALSE)
    \/ \E a \in Accounts, fail \in {"none", "delete_oldest", "insert", "update"} :
          JwtRegistry_issue_tokens(a, EmptyDict, FALSE, fail)
    \/ \E a \in Accounts, fail \in {"none", "delete_oldest", "insert", "update"} :
          JwtData_issue_tokens(a, EmptyDict, fail)
    \/ Tick

SpecIsolated == InitUnset /\ [][NextIsolated]_vars

\* ------------------------------------------------------------- the threads

\* the thread t holds access_lock
Holds(t) == threads.lock = <<t>>
\* a read or a write of the registry's dict by the thread t, in the call op
Access(t, op, kind) == [thread |-> t, op |-> op, kind |-> kind, held |-> Holds(t)]
\* the thread t leaves its call
Leaves(t) == [threads EXCEPT !.pc[t] = "idle", !.frame[t] = NoFrame]
\* the thread t leaves the with block of its call, and the call
Releases(t) == [Leaves(t) EXCEPT !.lock = <<>>]

\* a lock that does not make anyone wait
LockFree_always(lock) == TRUE

\* Lock.acquire, which `with self.access_lock` calls, returns once the lock is free
LockFree(lock) == lock = <<>>

\* a with block that ends once the account's data is read
LockAfterLookup_released(t) == <<>>

\* jwt_registry.py 251-332, jwt_data.py 211-312: the with block of issue_tokens goes on
\* after the lookup, to the end of the call
LockAfterLookup(t) == <<t>>

\* the calls of issue_tokens that have not returned: each may take one draw
InFlight == Cardinality({t \in Threads : threads.frame[t].op = "issue_tokens"})

\* a thread calls add_account, remove_account or issue_tokens, and comes to the with
\* statement that opens each of them
T_Call(t, op, account_id) ==
    /\ threads.pc[t] = "idle"
    /\ op = "issue_tokens" => draws + InFlight < MaxDraws
    /\ threads' = [threads EXCEPT !.pc[t] = "waiting",
                                  !.frame[t] = [NoFrame EXCEPT !.op = op,
                                                               !.account_id = account_id]]
    /\ UNCHANGED <<rev, env, kept, ACCOUNT_LIMIT, access_registry, store, db_conn, draws, now, result>>

\* with self.access_lock: the thread takes the lock
T_Acquire(t) ==
    /\ threads.pc[t] = "waiting"
    /\ LockFree(threads.lock)
    /\ threads' = [threads EXCEPT !.pc[t] = "locked", !.lock = <<t>>]
    /\ UNCHANGED <<rev, env, kept, ACCOUNT_LIMIT, access_registry, store, db_conn, draws, now, result>>

\* add_account: the body of its with block
T_add_account(t, claims, access_max_age, refresh_max_age, grace_interval) ==
    /\ threads.pc[t] = "locked"
    /\ threads.frame[t].op = "add_account"
    /\ LET account_id == threads.frame[t].account_id
           entry == IF rev = "registry"
                    THEN RegistryEntry(claims, access_max_age, refresh_max_age, grace_interval)
                    ELSE DataEntry("url", claims, access_max_age, refresh_max_age,
                                   grace_interval, FALSE)
       IN  /\ access_registry' =
                IF ~Registered(account_id)
                THEN [access_registry EXCEPT ![account_id] = <<entry>>]
                ELSE access_registry
           /\ result' = [ReturnedNone("add_account", account_id) EXCEPT !.args = <<entry>>]
    /\ threads' = [Releases(t) EXCEPT !.access = Access(t, "add_account", "write")]
    /\ UNCHANGED <<rev, env, kept, ACCOUNT_LIMIT, store, db_conn, draws, now>>

\* remove_account: the body of its with block, which pops the entry
T_remove_account(t) ==
    /\ threads.pc[t] = "locked"
    /\ threads.frame[t].op = "remove_account"
    /\ LET account_id == threads.frame[t].account_id
       IN  /\ access_registry' = [access_registry EXCEPT ![account_id] = <<>>]
           /\ threads' = [threads EXCEPT !.lock = <<>>,
                                         !.pc[t] = "delete",
                                         !.frame[t].existed = Registered(account_id),
                                         !.frame[t].popped_at = draws,
                                         !.access = Access(t, "remove_account", "write")]
    /\ UNCHANGED <<rev, env, kept, ACCOUNT_LIMIT, store, db_conn, draws, now, result>>

\* remove_account: the db_delete that follows the with block, and the return
T_remove_delete(t, deleted) ==
    /\ threads.pc[t] = "delete"
    /\ LET account_id == threads.frame[t].account_id
       IN  IF rev = "registry"
           THEN /\ result' = Raised("remove_account", account_id, "AttributeError", "value")
                /\ store' = store
           ELSE /\ result' = Returned("remove_account", account_id, threads.frame[t].existed)
                /\ store' = IF deleted THEN {r \in store : r.account # account_id} ELSE store
    /\ threads' = Leaves(t)
    /\ UNCHANGED <<rev, env, kept, ACCOUNT_LIMIT, access_registry, db_conn, draws, now>>

\* JwtRegistry.issue_token, which has no with block: the lookup is reached when the
\* nature and the duration are valid
T_issue_token(t, account_id, nature, duration, grace_interval, claims) ==
    /\ rev = "registry"
    /\ threads.pc[t] = "idle"
    /\ LET r == issue_token(account_id, nature, duration, grace_interval, claims)
       IN  /\ r.raised = "" => draws + InFlight < MaxDraws
           /\ draws' = IF r.raised = "" THEN draws + 1 ELSE draws
           /\ result' = [r EXCEPT !.args = TokenArgs(nature, duration, grace_interval, claims)]
    /\ threads' = IF ValidNature(nature) /\ ValidDuration(duration)
                  THEN [threads EXCEPT !.access = Access(t, "issue_token", "read")]
                  ELSE threads
    /\ UNCHANGED <<rev, env, kept, ACCOUNT_LIMIT, access_registry, store, db_conn, now>>

\* issue_tokens: the lookup of the account, and the claims of the refresh token (of an
\* account with a local provider and no grace interval, called with no claims)
T_Lookup(t) ==
    /\ threads.pc[t] = "locked"
    /\ threads.frame[t].op = "issue_tokens"
    /\ LET account_id == threads.frame[t].account_id
       IN  IF ~Registered(account_id)
           THEN /\ result' = Raised("issue_tokens", account_id, "RuntimeError", NoAccessData)
                /\ threads' = [Releases(t) EXCEPT !.access = Access(t, "issue_tokens", "read")]
           ELSE /\ Entry(account_id)["grace-interval"] = 0
                /\ rev = "data" => ~IsRemote(Entry(account_id))
                /\ LET account_data == Entry(account_id)
                       current_claims ==
                           IF rev = "registry"
                           THEN RegistryRefreshClaims(account_id, account_data, EmptyDict,
                                                      str_random, now)
                           ELSE DataRefreshClaims(DataBaseClaims(account_id, account_data,
                                                                 EmptyDict, str_random),
                                                  account_data, now)
                   IN  threads' = [threads EXCEPT
                                      !.lock = LockAfterLookup(t),
                                      !.pc[t] = "connect",
                                      !.frame[t].account_data = <<account_data>>,
                                      !.frame[t].claims = <<current_claims>>,
                                      !.frame[t].just_now = now,
                                      !.access = Access(t, "issue_tokens", "read")]
                /\ result' = result
    /\ UNCHANGED <<rev, env, kept, ACCOUNT_LIMIT, access_registry, store, db_conn, draws, now>>

\* issue_tokens: db_connect, and the db_select of _jwt_persist_token
T_Select(t) ==
    /\ threads.pc[t] = "connect"
    /\ \E recs \in Orderings(AccountRows(store, threads.frame[t].account_id)) :
          threads' = [threads EXCEPT !.pc[t] = "selected", !.frame[t].recs = recs]
    /\ UNCHANGED <<rev, env, kept, ACCOUNT_LIMIT, access_registry, store, db_conn, draws, now, result>>

\* what the loop of _jwt_persist_token finds in the rows the thread has selected
ThreadScan(t) ==
    IF rev = "registry"
    THEN RegistryScan(threads.frame[t].recs, 1, ScanStart, now)
    ELSE DataScan(threads.frame[t].recs, 1, ScanStart, now)

\* _jwt_persist_token: the db_delete of the expired tokens and the one of the oldest
T_Delete(t) ==
    /\ threads.pc[t] = "selected"
    /\ LET st == ThreadScan(t)
           evict == OverLimit(Len(threads.frame[t].recs), Len(st.expired))
       IN  threads' = [threads EXCEPT
                          !.pc[t] = "insert",
                          !.frame[t].deleted =
                              Kids(st.expired) \cup (IF evict THEN {st.oldest_id} ELSE {}),
                          !.frame[t].oldest = IF evict THEN <<st.oldest_id>> ELSE <<>>]
    /\ UNCHANGED <<rev, env, kept, ACCOUNT_LIMIT, access_registry, store, db_conn, draws, now, result>>

\* the table as the transaction of the thread t sees it: what is committed, less what
\* it has deleted, and what it has inserted
ThreadView(t) ==
    {r \in store : r.kid \notin threads.frame[t].deleted}
        \cup {threads.frame[t].inserted[i] : i \in 1..Len(threads.frame[t].inserted)}

\* _jwt_persist_token: the db_insert of the candidate token, and the db_select of its id
T_Insert(t) ==
    /\ threads.pc[t] = "insert"
    /\ LET account_id == threads.frame[t].account_id
           candidate == jwt_encode(threads.frame[t].claims[1], KidOf(ChrR, 0))
           row == Row(next_kid, account_id, candidate)
           view == {r \in store : r.kid \notin threads.frame[t].deleted} \cup {row}
           reply == IF rev = "registry"
                    THEN {r \in view : /\ r.account = account_id
                                       /\ r.kid \notin {q.kid : q \in Kids(threads.frame[t].recs)}}
                    ELSE {r \in view : r.token = candidate}
           found == IF rev = "registry" THEN Cardinality(reply) = 1 ELSE reply # {}
       IN  IF found
           THEN /\ threads' = [threads EXCEPT
                                  !.pc[t] = "update",
                                  !.frame[t].inserted = <<row>>,
                                  !.frame[t].token_id = (CHOOSE r \in reply : TRUE).kid]
                /\ result' = result
           ELSE /\ threads' = Releases(t)
                /\ result' = WithTx(Raised("issue_tokens", account_id, "RuntimeError",
                                           DatabaseError), <<"connect">>)
    /\ draws' = draws + 1
    /\ UNCHANGED <<rev, env, kept, ACCOUNT_LIMIT, access_registry, store, db_conn, now>>

\* issue_tokens: the definitive refresh token, and the db_update of its row
T_Update(t) ==
    /\ threads.pc[t] = "update"
    /\ LET refresh_token == jwt_encode(threads.frame[t].claims[1],
                                       KidOf(ChrR, threads.frame[t].token_id))
       IN  threads' = [threads EXCEPT !.pc[t] = "commit",
                                      !.frame[t].refresh_token = <<refresh_token>>]
    /\ UNCHANGED <<rev, env, kept, ACCOUNT_LIMIT, access_registry, store, db_conn, draws, now, result>>

\* issue_tokens: db_commit, the access token, and the return, which ends the with block
T_Commit(t) ==
    /\ threads.pc[t] = "commit"
    /\ LET f == threads.frame[t]
           refresh_token == f.refresh_token[1]
           access_claims == Put(f.claims[1], "exp", f.just_now + f.account_data[1]["access-max-age"])
           access_token == jwt_encode(access_claims, KidOf(ChrA, f.token_id))
       IN  /\ store' = db_update(ThreadView(t), f.token_id, refresh_token)
           /\ result' =
                WithTx(Returned("issue_tokens", f.account_id,
                                IF rev = "registry"
                                THEN RegistryTokenData(access_token, access_claims, refresh_token)
                                ELSE DataTokenData(access_token, access_claims, refresh_token)),
                       <<"connect", "commit">>)
    /\ threads' = [Releases(t) EXCEPT !.evicted = @ \o threads.frame[t].oldest]
    /\ UNCHANGED <<rev, env, kept, ACCOUNT_LIMIT, access_registry, db_conn, draws, now>>

\* a registry of either revision whose table keeps one token an account
InitThreads == InitUnset /\ ACCOUNT_LIMIT = 1

\* the calls of two threads on one registry, in any order their steps may take
NextThreads ==
    \/ \E t \in Threads, op \in {"add_account", "issue_tokens"}, a \in Accounts : T_Call(t, op, a)
    \/ \E t \in Threads : T_Call(t, "remove_account", "u2")
    \/ \E t \in Threads : T_Acquire(t)
    \/ \E t \in Threads : T_add_account(t, EmptyDict, 1, 2, 0)
    \/ \E t \in Threads : T_remove_account(t)
    \/ \E t \in Threads : T_remove_delete(t, TRUE)
    \/ \E t \in Threads : T_issue_token(t, "u1", StrValue(<<66>>), IntValue(60), 0, EmptyDict)
    \/ \E t \in Threads : T_Lookup(t)
    \/ \E t \in Threads : T_Select(t)
    \/ \E t \in Threads : T_Delete(t)
    \/ \E t \in Threads : T_Insert(t)
    \/ \E t \in Threads : T_Update(t)
    \/ \E t \in Threads : T_Commit(t)

SpecThreads == InitThreads /\ [][NextThreads]_vars

\* an exception that would leave the with block with the lock still taken
Unwinds_keeps_lock(t) == Leaves(t)

\* an exception leaves the with block it is raised in: the block's exit releases the lock
Unwinds(t) == Releases(t)

\* issue_tokens: jwt.encode, db_connect or a request to the database fails, and the
\* RuntimeError raised, or the exception of the signer, leaves the call
T_Raise(t) ==
    /\ threads.pc[t] \in {"connect", "selected", "insert", "update", "commit"}
    /\ result' = WithTx(Raised("issue_tokens", threads.frame[t].account_id, "RuntimeError",
                               DatabaseError),
                        IF threads.pc[t] = "connect" THEN <<>> ELSE <<"connect">>)
    /\ threads' = Unwinds(t)
    /\ UNCHANGED <<rev, env, kept, ACCOUNT_LIMIT, access_registry, store, db_conn, draws, now>>

\* a step the thread t takes once it is in a with block, or past the one of
\* remove_account, when nothing fails
Runs(t) ==
    \/ T_add_account(t, EmptyDict, 1, 2, 0)
    \/ T_remove_account(t)
    \/ T_remove_delete(t, TRUE)
    \/ T_Lookup(t)
    \/ T_Select(t)
    \/ T_Delete(t)
    \/ T_Insert(t)
    \/ T_Update(t)
    \/ T_Commit(t)

\* the calls of two threads for one account, any of which may fail where it can
NextLock ==
    \/ \E t \in Threads, op \in {"add_account", "remove_account", "issue_tokens"} :
          T_Call(t, op, "u1")
    \/ \E t \in Threads : T_Acquire(t)
    \/ \E t \in Threads : Runs(t)
    \/ \E t \in Threads : T_Raise(t)

\* a thread that is in a call goes on with it, and a thread that waits for a lock that
\* is free again and again is given it
SpecLock ==
    /\ InitThreads
    /\ [][NextLock]_vars
    /\ \A t \in Threads : WF_vars(Runs(t)) /\ SF_vars(T_Acquire(t))

\* ------------------------------------- claims: the token table and the registry

\* the account's rows in the table that are not expired now
LiveRows(a) == {r \in AccountRows(store, a) : ~(ExpOf(jwt_get_claims(r.token).payload) < now)}
\* the ids of a set of rows
RowIds(rows) == {r.kid : r \in rows}
\* the last call was a local issue_tokens that returned its pair of tokens
PairReturned ==
    /\ result.op = "issue_tokens"
    /\ result.raised = ""
    /\ result.ret # <<>>
    /\ {"refresh-token", "refresh_token"} \cap DOMAIN result.ret[1] # {}
    /\ Cardinality(DOMAIN result.args) = 0
\* the access token and the refresh token of the pair returned
AccessToken ==
    IF rev = "registry" THEN result.ret[1]["access-token"] ELSE result.ret[1]["access_token"]
RefreshToken ==
    IF rev = "registry" THEN result.ret[1]["refresh-token"] ELSE result.ret[1]["refresh_token"]
\* this step is a call of remove_account(a) that has completed
RemoveAccount(a) == JwtRegistry_remove_account(a) \/ JwtData_remove_account(a, TRUE)

\* C1: with an account limit N > 0, and the table empty at the start, no account ever
\* has more than N rows that are not expired.
C1_LimitInvariant ==
    \A a \in Accounts : ACCOUNT_LIMIT > 0 => Cardinality(LiveRows(a)) <= ACCOUNT_LIMIT

\* C1's case: the limit is 2, the third pair has been issued to u1, and u1 is at its limit
C1_Witness ==
    /\ ACCOUNT_LIMIT = 2
    /\ PairReturned
    /\ draws = 3
    /\ Cardinality(LiveRows("u1")) = 2

\* C2, as the specification states it: when an account is at its limit N, none of its
\* rows is expired, and their iat are distinct and earlier than now, an issue_tokens that
\* returns a pair leaves the account N rows: the new one, and all the former ones but
\* the one of the least iat.
C2_FifoEviction ==
    [][\A a \in Accounts :
        LET rows == AccountRows(store, a)
            iat(r) == IatOf(jwt_get_claims(r.token).payload)
            oldest == CHOOSE r \in rows : \A q \in rows : iat(r) <= iat(q)
        IN  (/\ result'.op = "issue_tokens" /\ result'.account_id = a /\ result'.ret # <<>>
             /\ draws' = draws + 1
             /\ ACCOUNT_LIMIT > 0
             /\ Cardinality(rows) = ACCOUNT_LIMIT
             /\ LiveRows(a) = rows
             /\ \A r \in rows : iat(r) < now
             /\ \A r, q \in rows : r # q => iat(r) # iat(q))
            => RowIds(AccountRows(store', a)) = (RowIds(rows) \ {oldest.kid}) \cup {draws'}
      ]_vars

\* C3: after a local issue_tokens has returned, the access token's kid is "A" + id and
\* the refresh token's kid is "R" + id, where id is the storage id of the row the call
\* inserted, and that row's token is the refresh token returned.
C3_HeaderEncoding ==
    PairReturned =>
        LET id == draws
        IN  /\ AccessToken.header.kid = <<65>> \o IntStr(id)
            /\ RefreshToken.header.kid = <<82>> \o IntStr(id)
            /\ \E r \in store :
                  /\ r.kid = id
                  /\ r.account = result.account_id
                  /\ r.token = RefreshToken
            /\ \A r \in store : r.kid = id => r.token = RefreshToken

\* C3's case: the second pair issued is the one of the row of id 2
C3_Witness ==
    /\ PairReturned
    /\ draws = 2
    /\ RefreshToken.header.kid = <<82, 50>>
    /\ AccessToken.header.kid = <<65, 50>>

\* C4, as the specification states it: remove_account returns true for a registered
\* account and false for one that is not, and leaves the account unregistered (so that
\* issue_tokens fails for it with the error of the unknown account).
C4_IdempotentRemoval ==
    [][\A a \in Accounts :
        RemoveAccount(a) =>
            /\ result' = Returned("remove_account", a, Registered(a))
            /\ access_registry'[a] = <<>>
      ]_vars

\* C5, as the specification states it: once remove_account(a) has completed, the table
\* holds no row of a, and the rows and the entries of every other account are as before.
C5_RemovePurges ==
    [][\A a \in Accounts :
        RemoveAccount(a) =>
            /\ AccountRows(store', a) = {}
            /\ \A b \in Accounts \ {a} :
                  /\ AccountRows(store', b) = AccountRows(store, b)
                  /\ access_registry'[b] = access_registry[b]
      ]_vars

\* C6: a step that ends a call of add_account(a, ...) leaves the entry of a as it was
\* if a had one, and else stores exactly the entry the parameters describe; it changes
\* no other entry, and leaves the table as it was.
C6_AddAccount ==
    [][(result'.op = "add_account" /\ result' # result) =>
        LET a == result'.account_id
        IN  /\ access_registry'[a] = IF Registered(a) THEN access_registry[a] ELSE result'.args
            /\ \A b \in Accounts \ {a} : access_registry'[b] = access_registry[b]
            /\ store' = store
      ]_vars

\* C6's case: add_account was called, with another entry, on an account that had one
C6_Witness ==
    /\ result.op = "add_account"
    /\ Registered(result.account_id)
    /\ result.args # <<Entry(result.account_id)>>
    /\ \E b \in Accounts \ {result.account_id} : Registered(b)

\* ------------------------------------------------- claims: standalone tokens

\* the last call was issue_token: result.args holds its arguments
TokenCall == result.op = "issue_token"
\* the call returned a token
TokenReturned == TokenCall /\ result.raised = "" /\ result.ret # <<>>
\* the call failed with the error of an invalid parameter, and returned no token
InvalidParameter ==
    /\ result.raised = "RuntimeError"
    /\ result.msg \in {InvalidNature, InvalidDuration}
    /\ result.ret = <<>>
\* nature is exactly one upper-case letter of A..Z
OneLetterAZ(nature) ==
    nature.isStr /\ Len(nature.chars) = 1 /\ nature.chars[1] \in 65..90
\* the six claims the issuer computes
IssuerClaims == {"iat", "iss", "exp", "jti", "nbf", "sub"}

C8_NoStandaloneR == TokenReturned => result.ret[1].header.kid # <<82>>

C10_CallerClaimsIgnored ==
    TokenReturned =>
        LET payload == result.ret[1].payload
            given == result.args.claims
            base == Entry(result.account_id)["claims"]
        IN  /\ \A k \in IssuerClaims \cap DOMAIN given :
                  k \in DOMAIN payload => payload[k] # given[k]
            /\ IF "iss" \in DOMAIN base THEN payload["iss"] = base["iss"]
               ELSE "iss" \notin DOMAIN payload
            /\ IF result.args.grace_interval # 0
               THEN payload["nbf"] = payload["iat"] + result.args.grace_interval
               ELSE "nbf" \notin DOMAIN payload

\* ------------------------------------------------- claims: the claims of a token

\* the tokens the last call returned: the two of a pair, or a standalone one
ReturnedTokens ==
    IF PairReturned THEN {AccessToken, RefreshToken}
    ELSE IF TokenReturned THEN {result.ret[1]}
    ELSE {}

\* C11: the sub claim of every token issued by issue_token or issue_tokens (the ones
\* the last call returned, and the ones the table holds) is the id of the account the
\* token was issued for, whatever the account's claims and the caller's hold.
C11_SubIsAccount ==
    /\ \A t \in ReturnedTokens : t.payload["sub"] = result.account_id
    /\ \A r \in store : r.token.payload["sub"] = r.account

\* C11's case: a pair was issued to an account registered with a sub claim of its own,
\* for a caller whose claims hold another one (and the name "n", which the tokens bear)
C11_Witness ==
    /\ PairReturned
    /\ Entry(result.account_id)["claims"]["sub"] = "root"
    /\ AccessToken.payload["name"] = "n"
    /\ RefreshToken.payload["name"] = "n"
    /\ AccessToken.payload["sub"] = "u1"
    /\ \E r \in store : r.token = RefreshToken

\* the tokens issued for the account a that the state holds: the ones the last call
\* returned, and the refresh tokens of the table
TokensOf(a) ==
    (IF result.account_id = a THEN ReturnedTokens ELSE {})
        \cup {r.token : r \in AccountRows(store, a)}

\* C12, as the specification states it: no two tokens issued for an account, the access
\* token and the refresh token of a pair counted as two, bear the same jti (the random
\* generator never returning a value twice).
C12_JtiUnique ==
    \A a \in Accounts :
        \A t1, t2 \in TokensOf(a) : t1 # t2 => t1.payload["jti"] # t2.payload["jti"]

\* the created_in and the expires_in of the pair returned
CreatedIn ==
    IF rev = "registry" THEN result.ret[1]["created-in"] ELSE result.ret[1]["created_in"]
ExpiresIn ==
    IF rev = "registry" THEN result.ret[1]["expires-in"] ELSE result.ret[1]["expires_in"]

\* C13, as the specification states it: for every pair issue_tokens returns, whatever
\* add_account accepted for the account, the access token's exp (the expires_in
\* returned) is at most the refresh token's exp.
C13_DurationOrdering ==
    PairReturned =>
        /\ ExpiresIn <= RefreshToken.payload["exp"]
        /\ AccessToken.payload["exp"] <= RefreshToken.payload["exp"]

IssueTokensStep == result'.op = "issue_tokens" /\ now' = now /\ vars' # vars

\* C15: an issue_tokens that is given the caller's connection neither commits it nor
\* rolls it back, whether it returns or raises: the table is as it was, the connection
\* is still open and holds what the call has written; and an issue_tokens commits or
\* rolls back only a connection it has opened itself.
C15_NestedOwnership ==
    [][IssueTokensStep =>
        /\ db_conn # <<>> =>
              /\ result'.tx = <<>>
              /\ store' = store
              /\ db_conn' # <<>>
              /\ result'.raised = "" => \E r \in db_conn'[1] : r.kid = draws' /\ r \notin store'
        /\ result'.tx # <<>> => (db_conn = <<>> /\ result'.tx[1] = "connect")
      ]_vars

\* C15's case: an issue_tokens given the caller's connection has failed after its
\* insert, and the row of the candidate token is in the caller's transaction, not in
\* the table
C15_Witness ==
    /\ result.op = "issue_tokens"
    /\ result.raised = "RuntimeError"
    /\ result.msg = DatabaseError
    /\ db_conn # <<>>
    /\ \E r \in db_conn[1] : r \notin store /\ r.token.header.kid = <<82, 48>>

\* the requests between the opening of the connection and the commit
MidTransaction == FailPoints \ {"none", "connect", "commit"}

\* C16, as the specification states it: when an issue_tokens that has opened its own
\* connection fails at a request made between the opening and the commit, it rolls the
\* transaction back before it raises, and the table is as it was before the call.
C16_RollbackOnFailure ==
    [][\A a \in Accounts, c \in AccountClaims, fail \in MidTransaction :
        (/\ JwtRegistry_issue_tokens(a, c, FALSE, fail) \/ JwtData_issue_tokens(a, c, fail)
         /\ result'.msg = DatabaseError)
        => /\ result'.tx = <<"connect", "rollback">>
           /\ store' = store
      ]_vars

\* ------------------------------------------------- claims: the request verifier

\* the header is the word "Bearer", one space, and at least one more word
IsBearer(h) == h.present /\ Len(h.words) >= 2 /\ h.words[1].text = "Bearer" /\ h.words[1].jwt = <<>>
\* what the signer, given the verifier's key and algorithm, says of the header's token
SignerSays(h) == jwt_validate_token(h.words[2], JWT_HS_SECRET_KEY, JWT_DEFAULT_ALGORITHM)
\* the response of an authorization that failed
Unauthorized(response) == response = <<Response("Authorization failed", 401)>>
\* the last call was op, on a request received now
RequestNow(op) == result.op = op /\ result.args.at = now

\* C17: jwt_verify_request answers 401 "Authorization failed", and validates no token,
\* when the Authorization header is absent or does not start with "Bearer "; for a
\* header "Bearer <token>" it hands the token to the signer, and returns None exactly
\* when the signer validates it, and else a 401 that bears the signer's message.
C17_VerifyRequest ==
    RequestNow("jwt_verify_request") =>
        LET h == result.args.header
        IN  IF ~IsBearer(h)
            THEN Unauthorized(result.ret) /\ result.args.validated = <<>>
            ELSE /\ result.args.validated = <<h.words[2]>>
                 /\ SignerSays(h) = "" <=> result.ret = <<>>
                 /\ SignerSays(h) # "" => result.ret = <<Response(SignerSays(h), 401)>>

\* C17's case: a request that bears a token the signer validates is let through
C17_Witness ==
    /\ RequestNow("jwt_verify_request")
    /\ IsBearer(result.args.header)
    /\ result.args.header.words[2].jwt # <<>>
    /\ result.args.validated = <<result.args.header.words[2]>>
    /\ result.ret = <<>>

\* C18, as the specification states it: in every configuration, a request to a function
\* that jwt_needed wraps whose bearer token is missing, malformed, expired or badly
\* signed is answered 401, and the function is not called.
C18_HandlerGuarded ==
    (RequestNow("jwt_needed") /\ (~IsBearer(result.args.header) \/ SignerSays(result.args.header) # ""))
        => /\ ~result.args.called
           /\ result.ret # <<>>
           /\ result.ret[1].status = 401

\* the token was signed by the issuer of this deployment, and now is neither before its
\* nbf nor after its exp
IssuedHere(t) ==
    t.sig = [algorithm |-> JwtConfig_DEFAULT_ALGORITHM, key |-> JwtConfig_ENCODING_KEY]
Current(t) ==
    /\ now < t.payload["exp"]
    /\ "nbf" \in DOMAIN t.payload => t.payload["nbf"] <= now

\* C19, as the specification states it: the verifier of a deployment lets through every
\* request that bears a token its issuer has issued, once the token is mature and
\* until it expires; and the claims read back from a token issued are the claims that
\* were signed.
C19_RoundTrip ==
    /\ (RequestNow("jwt_verify_request") /\ IsBearer(result.args.header)
            /\ result.args.header.words[2].jwt # <<>>)
        => LET t == result.args.header.words[2].jwt[1]
           IN  (IssuedHere(t) /\ Current(t)) => result.ret = <<>>
    /\ (TokenReturned /\ result.ret[1].payload["iat"] = now)
        => jwt_get_claims(result.ret[1]).payload
              = TokenClaims(result.account_id, Entry(result.account_id), result.args.claims,
                            result.args.grace_interval, result.args.duration.n, draws, now)

\* ------------------------------------------------- claims: the account that is not there

\* this step is a call of issue_token or of issue_tokens for an account that is not in
\* the registry
AbsentIssue ==
    /\ result'.op \in {"issue_token", "issue_tokens"}
    /\ now' = now
    /\ vars' # vars
    /\ ~Registered(result'.account_id)
\* the call has raised with msg, returned nothing, opened no transaction, and has
\* left the registry, the table and the caller's connection as they were
Refused(msg) ==
    /\ result'.raised = "RuntimeError"
    /\ result'.msg = msg
    /\ result'.ret = <<>>
    /\ result'.tx = <<>>
    /\ UNCHANGED <<access_registry, store, db_conn, draws>>
\* the arguments of this call of issue_token are a nature and a duration it takes
ValidArgs == ValidNature(result'.args.nature) /\ ValidDuration(result'.args.duration)

\* C20, as the specification states it: issue_token and issue_tokens for an account
\* that is not registered raise "No JWT access data found", return no token, open no
\* transaction, and leave the registry and the table as they were.
C20_UnregisteredFails ==
    [][AbsentIssue => Refused(NoAccessData)]_vars

\* C20, as the code has it: issue_tokens for an account that is not registered, and
\* issue_token for one with a nature and a duration it takes, raise "No JWT access data
\* found", return no token, open no transaction, and leave the registry and the table
\* as they were; an issue_token with a nature or a duration it does not take does the
\* same but raises "Invalid nature" or "Invalid duration", the nature first, whether or
\* not the account is registered.
C20_UnregisteredFailsAfterValidation ==
    [][/\ (AbsentIssue /\ (result'.op = "issue_token" => ValidArgs)) => Refused(NoAccessData)
       /\ (result'.op = "issue_token" /\ now' = now /\ vars' # vars /\ ~ValidArgs)
            => Refused(IF ~ValidNature(result'.args.nature) THEN InvalidNature
                       ELSE InvalidDuration)
      ]_vars

\* C20's case: an account that had tokens in the table has been removed, and the tokens
\* then asked for it are refused, whatever the database would have answered
C20_Witness ==
    /\ result.op \in {"issue_token", "issue_tokens"}
    /\ ~Registered(result.account_id)
    /\ result.msg = NoAccessData
    /\ result.tx = <<>>
    /\ draws > 0

\* ------------------------------------------------- claims: the remote provider

\* the last call was an issue_tokens for an account with a remote provider
RemoteCall == result.op = "issue_tokens" /\ Cardinality(DOMAIN result.args) # 0
\* this step is an issue_tokens of JwtData for a registered account whose provider is
\* remote
RemoteIssue ==
    /\ rev = "data"
    /\ result'.op = "issue_tokens"
    /\ now' = now
    /\ vars' # vars
    /\ Registered(result'.account_id)
    /\ Entry(result'.account_id)["remote-provider"]

\* C21: an issue_tokens for an account registered with a remote provider makes no
\* request to the database (no connection is opened, the table and the registry are
\* as they were, whatever the database would have answered) and signs no token: it
\* posts the claim set to the account's reference URL, once, and what it returns is
\* the provider's JSON.
C21_RemoteNoStore ==
    [][RemoteIssue =>
        LET a == result'.account_id
        IN  /\ result'.tx = <<>>
            /\ UNCHANGED <<store, db_conn, access_registry>>
            /\ Len(result'.args.posted) = 1
            /\ result'.args.posted[1].url = Entry(a)["reference-url"]
            /\ \E c \in PairClaimsGiven :
                  result'.args.posted[1].json = DataBaseClaims(a, Entry(a), c, draws + 1)
            /\ result'.raised = "" => result'.ret = result'.args.response.json
      ]_vars

\* C21's case: the table holds rows of the account, which was local, was removed and
\* is now registered with a remote provider, and the provider's JSON is returned
C21_Witness ==
    /\ RemoteCall
    /\ result.raised = ""
    /\ result.ret \in {<<j>> : j \in ProviderJson}
    /\ AccountRows(store, result.account_id) # {}
    /\ Registered(result.account_id)
    /\ Entry(result.account_id)["remote-provider"]

\* C29: a remote issuance returns the provider's JSON exactly when the provider answers
\* 200, 201 or 202; with any other status, 204 and 302 among them, it raises a
\* RuntimeError whose message is made of the status reason and of the body's text,
\* returns nothing, and has posted its request once.
C29_RemoteStatus ==
    RemoteCall =>
        LET response == result.args.response
        IN  /\ result.raised = "" <=> response.status_code \in {200, 201, 202}
            /\ Len(result.args.posted) = 1
            /\ result.raised = "" => result.ret = response.json /\ result.ret # <<>>
            /\ result.raised # "" =>
                  /\ result.raised = "RuntimeError"
                  /\ result.msg = RequestFailed
                  /\ result.ret = <<>>
                  /\ Len(result.args.errors) = 1
                  /\ \E i \in 1..Len(result.args.errors[1]) :
                        result.args.errors[1][i] = response.reason
                  /\ response.text # "" =>
                        \E i \in 1..Len(result.args.errors[1]) :
                           result.args.errors[1][i] = response.text

\* C29's case: the provider has answered 204, and the issuance has failed
C29_Witness ==
    /\ RemoteCall
    /\ result.args.response.status_code = 204
    /\ result.raised = "RuntimeError"

\* ------------------------------------------------- claims: the rows of the table

\* the rows of the account in table that have not expired at the time t
LiveIn(table, a, t) ==
    {r \in AccountRows(table, a) : ~(ExpOf(jwt_get_claims(r.token).payload) < t)}
\* this step is a call of issue_tokens that has returned a pair of tokens it has signed
PairIssued ==
    /\ IssueTokensStep
    /\ result'.raised = ""
    /\ result'.ret # <<>>
    /\ Cardinality(DOMAIN result'.args) = 0

\* C22: with an account limit of 0 or less, no call of issue_tokens, whether it returns
\* or raises, deletes a row that has not expired, and every call that returns a pair
\* leaves the account one more such row than it found.
C22_CapDisabled ==
    [][(ACCOUNT_LIMIT <= 0 /\ IssueTokensStep) =>
        LET a == result'.account_id
        IN  /\ LiveIn(store, a, now) \subseteq store'
            /\ PairIssued =>
                  Cardinality(LiveIn(store', a, now)) = Cardinality(LiveIn(store, a, now)) + 1
      ]_vars

\* C22's case: the cap is disabled, and the account has more rows that have not
\* expired than any cap tried would leave it
C22_Witness ==
    /\ ACCOUNT_LIMIT <= 0
    /\ PairReturned
    /\ Cardinality(LiveRows(result.account_id)) >= 3

\* the rows of the account in table that have expired at the time t
ExpiredIn(table, a, t) == AccountRows(table, a) \ LiveIn(table, a, t)
\* the time a row's token was issued at
RowIat(r) == IatOf(jwt_get_claims(r.token).payload)

\* C25: a call of issue_tokens that returns a pair has deleted every row of the account
\* that had expired (exp < now); and a call that finds fewer rows that have not expired
\* than the limit deletes none of them, however many expired rows it finds with them.
C25_ExpiryPrecedence ==
    [][IssueTokensStep =>
        LET a == result'.account_id
        IN  /\ PairIssued => ExpiredIn(store, a, now) \cap store' = {}
            /\ Cardinality(LiveIn(store, a, now)) < ACCOUNT_LIMIT
                  => LiveIn(store, a, now) \subseteq store'
      ]_vars

\* C25's case: the account had as many rows as the limit or more, fewer of them not
\* expired than the limit, and the pair is returned with all of these still there
C25_Witness ==
    /\ PairReturned
    /\ ACCOUNT_LIMIT = 2
    /\ now = 1
    /\ Cardinality(LiveRows("u1")) = 2
    /\ StoredRow(14, -1, 9) \in store
    /\ store \cap {StoredRow(11, -3, -1), StoredRow(15, -1, 0)} = {}
    /\ draws = 1

\* C26, as the specification states it: whatever rows the account has, expired or not,
\* when the limit is positive and the rows that have not expired are as many as the
\* limit or more, a call of issue_tokens that returns a pair has deleted exactly one of
\* them, and none of them was issued before it.
C26_OldestLiveEvicted ==
    [][PairIssued =>
        LET a == result'.account_id
            live == LiveIn(store, a, now)
            gone == live \ store'
        IN  (0 < ACCOUNT_LIMIT /\ ACCOUNT_LIMIT <= Cardinality(live))
                => /\ Cardinality(gone) = 1
                   /\ \A r \in gone, q \in live : RowIat(r) <= RowIat(q)
      ]_vars

\* ------------------------------------------------- claims: the two phases

\* the kid of the candidate refresh token
CandidateKid == KidOf(ChrR, 0)

\* C27: when every call of issue_tokens succeeds in what it asks of the database, the
\* candidate token (kid "R0") is in no pair returned, every row of the table holds the
\* definitive token, whose kid is "R" and the row's own id, and a row's token is
\* written in the call that inserts the row and never after: a row that a call finds
\* and leaves holds the token it held.
C27_TwoPhasePersist ==
    [][/\ \A r \in store' : r.token.header.kid = KidOf(ChrR, r.kid) /\ r.kid # 0
       /\ \A r \in store, q \in store' : r.kid = q.kid => q.token = r.token
       /\ PairIssued =>
             LET pair == result'.ret[1]
             IN  \A k \in DOMAIN pair :
                    k \in {"access-token", "access_token", "refresh-token", "refresh_token"}
                        => pair[k].header.kid # CandidateKid
      ]_vars

\* C27's case: the table holds the rows of two calls, each with its definitive token,
\* and the second call has returned the token of its row
C27_Witness ==
    /\ PairReturned
    /\ Cardinality(store) = 2
    /\ \E r \in store : r.kid = draws /\ r.token = RefreshToken /\ r.token.header.kid # CandidateKid
    /\ \E r \in store : r.kid # draws /\ r.token.header.kid = KidOf(ChrR, r.kid)

\* ------------------------------------------------- claims: the grace interval

\* this step is a call of issue_tokens for a registered account whose provider is local
LocalIssue ==
    /\ IssueTokensStep
    /\ Registered(result'.account_id)
    /\ rev = "data" => ~Entry(result'.account_id)["remote-provider"]
\* the tokens of the pair this step has returned
PairTokens ==
    IF rev = "registry"
    THEN {result'.ret[1]["access-token"], result'.ret[1]["refresh-token"]}
    ELSE {result'.ret[1]["access_token"], result'.ret[1]["refresh_token"]}

\* C28, as the specification states it: when the account's grace interval is set, a
\* call of issue_tokens that the database serves returns a pair, and both tokens bear
\* nbf = iat + grace interval and a valid-from that renders it; when it is not set,
\* valid-from renders iat, and the tokens bear no nbf that the issuer has computed.
C28_GraceInterval ==
    [][LocalIssue =>
        LET grace_interval == Entry(result'.account_id)["grace-interval"]
        IN  /\ grace_interval > 0 => PairIssued
            /\ PairIssued =>
                  \A t \in PairTokens :
                     IF grace_interval > 0
                     THEN /\ "nbf" \in DOMAIN t.payload
                          /\ t.payload["nbf"] = t.payload["iat"] + grace_interval
                          /\ t.payload["valid-from"] = isoformat(t.payload["nbf"])
                     ELSE /\ t.payload["valid-from"] = isoformat(t.payload["iat"])
                          /\ "nbf" \in DOMAIN t.payload => t.payload["nbf"] = 99
      ]_vars

\* C23: every read and every write of the registry's dict, by add_account,
\* remove_account, issue_token and issue_tokens, is made by a thread that holds
\* access_lock at that moment.
C23_LockedAccess == threads.access.held

\* the steps of issue_tokens between the lookup of the account and the return
IssuanceSteps == {"connect", "selected", "insert", "update", "commit"}
\* the threads that are between the lookup and the return of a call of issue_tokens
Issuing == {t \in Threads : threads.pc[t] \in IssuanceSteps}

\* C24: whatever the accounts the threads call issue_tokens for, at most one thread is
\* between the lookup of its account and its return, and that thread holds the lock: the
\* select, delete, insert, update and commit of two issuances never interleave.
C24_MutualExclusion ==
    /\ Cardinality(Issuing) <= 1
    /\ \A t \in Issuing : Holds(t)
\* one thread has inserted the row of an account while the other one, which has called
\* issue_tokens for another account, waits for the lock
C24_Witness ==
    \E t, u \in Threads :
        /\ threads.pc[t] = "update"
        /\ threads.pc[u] = "waiting"
        /\ threads.frame[u].op = "issue_tokens"
        /\ threads.frame[u].account_id # threads.frame[t].account_id

\* C30: with the threads calling issue_tokens for one account in any interleaving, the
\* table never holds more rows of the account that have not expired than a limit
\* above 0 allows, and no row is taken twice as the oldest one to evict.
C30_ConcurrentLimit ==
    /\ ACCOUNT_LIMIT > 0 => \A a \in Accounts : Cardinality(LiveRows(a)) <= ACCOUNT_LIMIT
    /\ \A i, j \in 1..Len(threads.evicted) : i # j => threads.evicted[i] # threads.evicted[j]
\* a thread has taken the oldest row of an account to evict, in a table that is at the
\* limit, while the other one waits to issue tokens for the same account
C30_Witness ==
    \E t, u \in Threads :
        /\ threads.pc[t] = "insert"
        /\ threads.frame[t].deleted # {}
        /\ Cardinality(LiveRows(threads.frame[t].account_id)) = ACCOUNT_LIMIT
        /\ threads.pc[u] = "waiting"
        /\ threads.frame[u].op = "issue_tokens"
        /\ threads.frame[u].account_id = threads.frame[t].account_id

\* ------------------------------------------------- claims: what a call leaves alone

\* the rows of table that are not the account's
OtherRows(table, a) == {r \in table : r.account # a}

\* C31: a call of issue_tokens for an account, whether it returns a pair or raises,
\* leaves every row of every other account as it was: it deletes none, inserts none and
\* rewrites none.
C31_AccountIsolation ==
    [][IssueTokensStep => OtherRows(store', result'.account_id) = OtherRows(store, result'.account_id)
      ]_vars

\* C31's case: a call for an account that was at its limit has returned a pair, its
\* oldest row is gone, and the row of the other account, which is older, is still there
C31_Witness ==
    /\ PairReturned
    /\ Cardinality(AccountRows(store, result.account_id)) = ACCOUNT_LIMIT
    /\ \E r \in AccountRows(store, result.account_id) : r.kid > ACCOUNT_LIMIT + 1
    /\ \E r \in OtherRows(store, result.account_id) : r.kid = 1

\* C32, as the specification states it: a call of issue_tokens, whether it returns or
\* raises, leaves the registry as it was: the entry of its account and every other
\* entry hold what they held.
C32_RegistryUnchanged == [][IssueTokensStep => access_registry' = access_registry]_vars

\* this step is a call of issue_token
IssueTokenStep == result'.op = "issue_token" /\ now' = now /\ vars' # vars

\* C33: a call of issue_token, whether it returns a token or raises, inserts, deletes
\* and rewrites no row of the table, opens no connection and leaves the caller's as it
\* is, and leaves the registry as it was.
C33_StandaloneNoEffect ==
    [][IssueTokenStep =>
        /\ store' = store
        /\ db_conn' = db_conn
        /\ result'.tx = <<>>
        /\ access_registry' = access_registry
      ]_vars

\* C33's case: a token is returned for an account whose table holds the row of a pair,
\* and the token is in no row
C33_Witness ==
    /\ TokenReturned
    /\ AccountRows(store, result.account_id) # {}
    /\ \A r \in store : r.token # result.ret[1]

\* ------------------------------------------------- claims: the lock is given back

\* where a thread is when it is inside a with block
InWithBlock == {"locked"} \cup IssuanceSteps

RemoveEnds(t) == threads.pc[t] = "delete" /\ threads'.pc[t] = "idle"
\* the rows of the account that were inserted after the thread t popped its entry: the
\* refresh tokens of the pairs issued to the account as it was registered again
IssuedSincePop(t) ==
    {r \in AccountRows(store, threads.frame[t].account_id) : r.kid > threads.frame[t].popped_at}

\* C35, as the specification states it: when an account is registered again and issued
\* a pair while a call of remove_account for it is under way, the row of that pair is
\* still in the table once the call of remove_account has ended.
C35_RemovalRevokesOnlyEarlier ==
    [][\A t \in Threads : RemoveEnds(t) => IssuedSincePop(t) \subseteq store']_vars

\* ------------------------------------------------- claims: what the verifier looks at

\* the token of the request the last call has verified
VerifiedToken == result.args.header.words[2].jwt[1]
\* the table holds the row of the refresh token that was issued with the token
RowThere(t) == \E r \in store : r.token.payload["jti"] = t.payload["jti"]

\* the request that bears the token t
Bearing(t) == Header(<<Word("Bearer"), TokenWord(t)>>)

ValidFrom(t) == IF "nbf" \in DOMAIN t.payload THEN t.payload["nbf"] ELSE t.payload["iat"]

\* C37, as the specification states it: in every token that issue_token or issue_tokens
\* returns, the access token of a pair included, valid-until renders the token's own
\* exp, and valid-from renders its nbf when it bears one and its iat when it does not.
C37_ValidityRendered ==
    \A t \in ReturnedTokens :
        /\ t.payload["valid-until"] = isoformat(t.payload["exp"])
        /\ t.payload["valid-from"] = isoformat(ValidFrom(t))

\* ------------------------------------------------- claims: one row in, one row out

\* the rows of table whose id is none of the ids of the rows of other
NotIn(table, other) == {r \in table : r.kid \notin RowIds(other)}

\* C38: a call of issue_tokens that returns a pair has inserted exactly one row and has
\* deleted at most one row that had not expired; and it has deleted one only if the
\* limit is positive and the rows of the account that had not expired were as many as
\* the limit or more.
C38_OneInOneOut ==
    [][PairIssued =>
        LET a == result'.account_id
            live == LiveIn(store, a, now)
            gone == NotIn(live, store')
        IN  /\ Cardinality(NotIn(store', store)) = 1
            /\ Cardinality(gone) <= 1
            /\ gone # {} => (0 < ACCOUNT_LIMIT /\ ACCOUNT_LIMIT <= Cardinality(live))
      ]_vars

\* C38's case: under a limit of 1, the second call has returned its pair before the
\* token of the first one expires, and its row has taken the place of the first one's
C38_Witness ==
    /\ PairReturned
    /\ ACCOUNT_LIMIT = 1
    /\ now = 0
    /\ draws = 2
    /\ RowIds(AccountRows(store, "u1")) = {2}

\* ------------------------------------------------- claims: the storage id

\* the refresh token of the pair this step has returned
RefreshIssued ==
    IF rev = "registry" THEN result'.ret[1]["refresh-token"] ELSE result'.ret[1]["refresh_token"]

\* C39: the storage id a call of issue_tokens gets from _jwt_persist_token, which it
\* writes in the kid of the tokens it returns, is the id of the one row the call has
\* inserted: a row of the account, whose id is none of the ids the account's rows had
\* before the call, the deleted ones included, and which holds the refresh token
\* returned; and when the select that looks the new row up fails, the call raises and
\* returns no token.
C39_StorageId ==
    [][/\ PairIssued =>
             LET a == result'.account_id
                 named == {r \in store' : KidOf(ChrR, r.kid) = RefreshIssued.header.kid}
             IN  /\ Cardinality(named) = 1
                 /\ \A r \in named : /\ r.account = a
                                     /\ r.kid \notin RowIds(AccountRows(store, a))
                                     /\ r.token = RefreshIssued
                 /\ named = NotIn(store', store)
       /\ \A a \in Accounts, c \in AccountClaims :
             (/\ Registered(a)
              /\ \/ JwtRegistry_issue_tokens(a, c, FALSE, "lookup")
                 \/ JwtData_issue_tokens(a, c, "lookup"))
             => /\ result'.raised = "RuntimeError"
                /\ result'.msg = DatabaseError
                /\ result'.ret = <<>>
      ]_vars

\* C39's case: the third pair of an account that keeps two rows is returned, and the
\* id in its tokens is the id of the row just inserted, the first row being gone
C39_Witness ==
    /\ PairReturned
    /\ ACCOUNT_LIMIT = 2
    /\ draws = 3
    /\ RowIds(AccountRows(store, result.account_id)) = {2, 3}
    /\ RefreshToken.header.kid = KidOf(ChrR, 3)
    /\ \E r \in store : r.kid = 3 /\ r.token = RefreshToken

====
